---- MODULE Spec2Model ----
(***************************************************************************)
(* BLE pairing and chunked credential transfer of ble-transfer-example:    *)
(* the initiator (startIoTRegistration), the responder                     *)
(* (handleIoTRegistrationData with the tablet screen's confirmation hook)  *)
(* and the codec they share (getDataType, writeDataInChunks, the mock      *)
(* issuer).  A JavaScript string is a sequence of one-character strings;   *)
(* the double quote and the backslash are written "dq" and "bs".           *)
(***************************************************************************)
EXTENDS Integers, Sequences, FiniteSets, TLC

\* ------------------------------------------------------------------ codec
\* bleManager.ts:19 and :22
CONNECTION_CODE_LENGTH == 6
BLE_CHUNK_DATA_SIZE == 18

UpperChars ==
    <<"A", "B", "C", "D", "E", "F", "G", "H", "I", "J", "K", "L", "M", "N", "O", "P",
      "Q", "R", "S", "T", "U", "V", "W", "X", "Y", "Z">>
DigitChars ==
    <<"0", "1", "2", "3", "4", "5", "6", "7", "8", "9">>
\* the character class [A-Z0-9] of the code pattern
CodeChars == {UpperChars[i] : i \in 1..Len(UpperChars)} \cup {DigitChars[i] : i \in 1..Len(DigitChars)}

START_MARK == <<"S", "T", "A", "R", "T">>
END_MARK == <<"E", "N", "D">>
PREFIX_TAB == <<"T", "A", "B", "-">>
PREFIX_IOT == <<"I", "O", "T", "-">>
PREFIX_TABLET == <<"T", "A", "B", "L", "E", "T", "-">>
PREFIX_JWT == <<"e", "y", "J">>

MinOf(S) == CHOOSE x \in S : \A y \in S : x <= y

\* String.prototype.startsWith
startsWith(data, prefix) ==
    /\ Len(data) >= Len(prefix)
    /\ SubSeq(data, 1, Len(prefix)) = prefix

\* String.prototype.indexOf: the 0-based position of the first occurrence, or -1
indexOf(data, pat) ==
    LET hits == {i \in 0..(Len(data) - Len(pat)) : SubSeq(data, i + 1, i + Len(pat)) = pat}
    IN IF hits = {} THEN -1 ELSE MinOf(hits)

\* String.prototype.includes
includes(data, pat) == indexOf(data, pat) # -1

\* String.prototype.substring(from, to), 0 <= from <= to
substring(data, from, to) == SubSeq(data, from + 1, IF to > Len(data) THEN Len(data) ELSE to)

\* (data.match(/\./g) || []).length
dotCount(data) == Cardinality({i \in 1..Len(data) : data[i] = "."})

\* /^[A-Z0-9]+$/.test(data)
matchesCodePattern(data) == Len(data) >= 1 /\ \A i \in 1..Len(data) : data[i] \in CodeChars

\* a classification that would look at the length alone
getDataTypeByLength(data) ==
    IF Len(data) = CONNECTION_CODE_LENGTH THEN "connectionCode" ELSE "unknown"

getDataType(data) ==
    IF Len(data) = CONNECTION_CODE_LENGTH /\ matchesCodePattern(data) THEN "connectionCode"
    ELSE IF startsWith(data, PREFIX_TAB) \/ startsWith(data, PREFIX_IOT) \/ startsWith(data, PREFIX_TABLET)
         THEN "serialNumber"
    ELSE IF startsWith(data, PREFIX_JWT) /\ dotCount(data) >= 2 THEN "jwtToken"
    ELSE "unknown"

validateConnectionCode(code) == Len(code) = CONNECTION_CODE_LENGTH /\ matchesCodePattern(code)

\* the chunks array of writeDataInChunks: message.slice(i, i + 18) for i = 0, 18, ...
chunksOf(message) ==
    [k \in 1..((Len(message) + BLE_CHUNK_DATA_SIZE - 1) \div BLE_CHUNK_DATA_SIZE) |->
        substring(message, (k - 1) * BLE_CHUNK_DATA_SIZE, k * BLE_CHUNK_DATA_SIZE)]

\* ------------------------------------------------------------ mock issuer
\* the printable ASCII characters, code 32 first
Ascii ==
    <<" ", "!", "dq", "#", "$", "%", "&", "'", "(", ")", "*", "+", ",", "-", ".", "/",
      "0", "1", "2", "3", "4", "5", "6", "7", "8", "9", ":", ";", "<", "=", ">", "?",
      "@", "A", "B", "C", "D", "E", "F", "G", "H", "I", "J", "K", "L", "M", "N", "O",
      "P", "Q", "R", "S", "T", "U", "V", "W", "X", "Y", "Z", "[", "bs", "]", "^", "_",
      "bt", "a", "b", "c", "d", "e", "f", "g", "h", "i", "j", "k", "l", "m", "n", "o",
      "p", "q", "r", "s", "t", "u", "v", "w", "x", "y", "z", "{", "|", "}", "~">>
charCode(c) == 31 + (CHOOSE i \in 1..Len(Ascii) : Ascii[i] = c)

Base64Alphabet ==
    <<"A", "B", "C", "D", "E", "F", "G", "H", "I", "J", "K", "L", "M", "N", "O", "P",
      "Q", "R", "S", "T", "U", "V", "W", "X", "Y", "Z", "a", "b", "c", "d", "e", "f",
      "g", "h", "i", "j", "k", "l", "m", "n", "o", "p", "q", "r", "s", "t", "u", "v",
      "w", "x", "y", "z", "0", "1", "2", "3", "4", "5", "6", "7", "8", "9", "+", "/">>

\* btoa: three bytes to four characters, "=" padding
btoa(s) ==
    LET n == Len(s)
        byte(i) == IF i <= n THEN charCode(s[i]) ELSE 0
        quad(g) ==
            LET v == byte(3 * g + 1) * 65536 + byte(3 * g + 2) * 256 + byte(3 * g + 3)
            IN << Base64Alphabet[(v \div 262144) + 1],
                  Base64Alphabet[((v \div 4096) % 64) + 1],
                  IF 3 * g + 2 <= n THEN Base64Alphabet[((v \div 64) % 64) + 1] ELSE "=",
                  IF 3 * g + 3 <= n THEN Base64Alphabet[(v % 64) + 1] ELSE "=" >>
    IN [i \in 1..(4 * ((n + 2) \div 3)) |-> quad((i - 1) \div 4)[((i - 1) % 4) + 1]]

\* Number.prototype.toString for n >= 0
RECURSIVE toString(_)
toString(n) ==
    IF n < 10 THEN <<DigitChars[n + 1]>>
    ELSE toString(n \div 10) \o <<DigitChars[(n % 10) + 1]>>

\* Date.now() is [sec |-> seconds, ms |-> 0..999]: its decimal digits
pad3(ms) == <<DigitChars[(ms \div 100) + 1], DigitChars[((ms \div 10) % 10) + 1], DigitChars[(ms % 10) + 1]>>
nowString(now) == toString(now.sec) \o pad3(now.ms)

JwtHeaderJson ==
    <<"{", "dq", "a", "l", "g", "dq", ":", "dq", "H", "S", "2", "5", "6", "dq", ",",
      "dq", "t", "y", "p", "dq", ":", "dq", "J", "W", "T", "dq", "}">>
JsonDeviceId == <<"{", "dq", "d", "e", "v", "i", "c", "e", "I", "d", "dq", ":", "dq">>
JsonUserIat ==
    <<"dq", ",", "dq", "u", "s", "e", "r", "I", "d", "dq", ":", "dq", "u", "s", "e",
      "r", "1", "2", "3", "dq", ",", "dq", "i", "a", "t", "dq", ":">>
JsonExp == <<",", "dq", "e", "x", "p", "dq", ":">>
JsonClose == <<"}">>
SignaturePrefix ==
    <<"m", "o", "c", "k", "-", "s", "i", "g", "n", "a", "t", "u", "r", "e", "-">>

generateJwtToken(serialNumber, now) ==
    LET mockPayload == JsonDeviceId \o serialNumber \o JsonUserIat \o toString(now.sec)
                         \o JsonExp \o toString(now.sec + 86400) \o JsonClose
    IN btoa(JwtHeaderJson) \o <<".">> \o btoa(mockPayload) \o <<".">>
         \o SignaturePrefix \o nowString(now)

\* ------------------------------------------------------- bounds and inputs
Initiator == "AA:01"
OtherPeer == "BB:02"
Peers == {Initiator, OtherPeer}

\* how many writes the centrals of the responder-only specification make in all
MaxPeerWrites == 3
\* how many notifications the link delivers in the initiator-only specification
MaxNotifications == 2
\* how many pollers the error handler may start, and how many reads of one poller may
\* be pending at once
MaxPollers == 1
\* how many notifications the link delivers to the initiator on iOS
MaxRecovered == 1
MaxReadsInFlight == 2
\* how many calls the screen makes to the peripheral adapter in all
MaxAdapterCalls == 5

\* connection codes the initiator screen may have generated (generateConnectionCode)
Codes == {<<"A", "B", "1", "2", "C", "D">>}
\* serial numbers handed to handleIoTRegistrationData: generateSerialNumber's
\* TAB-<6 digits> and a TABLET- identity, one of the prefixes getDataType recognises
Identities == {<<"T", "A", "B", "-", "1", "2", "3", "4", "5", "6">>,
               <<"T", "A", "B", "L", "E", "T", "-", "1", "2", "3", "4", "5", "6", "7">>}
\* Date.now() when the issuer runs
Clocks == {[sec |-> 1730000000, ms |-> 123]}
\* what a central may write in the responder-only specification: a code, a wrong-shape
\* code, a whole credential, and a START...END stream in one piece or in two
PeerCode == <<"Z", "Z", "9", "9", "Z", "Z">>
WrongShapeCode == <<"a", "b", "c">>
WholeCredential == <<"e", "y", "J", ".", "a", ".", "b">>
WholeStream == <<"S", "T", "A", "R", "T", "a", ".", "b", "E", "N", "D">>
StreamHead == <<"S", "T", "A", "R", "T", "a", ".">>
StreamTail == <<"b", "E", "N", "D">>
PeerPayloads == {PeerCode, WrongShapeCode, WholeCredential, WholeStream, StreamHead, StreamTail}
\* what the link may deliver in the initiator-only specification: a serial number, and
\* the code echoed back
LinkPayloads == {<<"T", "A", "B", "-", "1", "2", "3", "4", "5", "6">>, <<"A", "B", "1", "2", "C", "D">>}

\* ------------------------------------------------------------------ state
VARIABLES
    \* responder (tablet)
    deviceDataChunks,       \* Map deviceId -> accumulated chunk text
    deviceConnectionCodes,  \* Map deviceId -> stored connection code
    serialNumber,           \* the tablet's serial number
    hookRegistered,         \* whether onConnectionCodeReceived is passed
    tabletStatus,           \* the last onStatusUpdate / setStatus text
    tabletCompleted,        \* the onComplete calls of the responder, in order
    requests,               \* the confirmation dialogs raised by the hook, in order
    connectedDevices,       \* connectedDevices of the tablet screen
    callbackThrows,         \* the onComplete callback handed to the responder throws
    identitySends,          \* history: the sendNotification calls carrying the serial number
    sessionCompletions,     \* history: per device, onComplete calls since its last accepted
                            \* code, -1 while no code of it was accepted
    inbox,                  \* onReceiveData events not yet handled
    \* the link to the initiator
    notifications,          \* notifications on CODE_VERIFY not yet delivered
    notified,               \* history: per device, the values the adapter notified to it
    \* initiator (mobile)
    connectionCode,         \* the code startIoTRegistration is called with
    clock,                  \* Date.now() at the issuer
    regPc,                  \* startIoTRegistration: "idle", "monitoring", "rejected", "removed"
    isCompleted,            \* its isCompleted flag
    subscribed,             \* the Subscription is live (not removed)
    handlers,               \* the invocations of the data callback that found an identity
    mobileCompleted,        \* the onComplete calls of the initiator, in order
    mobileErrors,           \* the onError calls of the initiator, in order
    fragmentsWritten,       \* credential fragments the initiator wrote successfully
    \* environment
    tabletAttached,         \* the responder is part of the specification (else writes
                            \* are confirmed by an environment that is not modelled)
    peerWrites,             \* writes made by the centrals of the responder-only specification
    injected,               \* notifications delivered by the environment
    cutPayload,             \* the payload whose marked stream is delivered cut by cut
    cutRest,                \* the part of that stream not delivered yet
    \* the iOS fallback of the initiator
    retryCount,             \* retryCount of monitorCharacteristic
    pollers,                \* the setInterval pollers started by the error handler
    pollHandlers,           \* values found by a poll read, being processed
    \* the native peripheral adapter (BluetoothClientModule)
    mBluetoothLeAdvertiser, \* the field is not null
    mAdvertiseCallback,     \* the field is not null
    mGattServer,            \* the field is not null: a GATT server was opened
    servicesMap,            \* service uuid -> the uuids of the characteristics of the service
    gattServices,           \* the services added to the open GATT server
    advertising,            \* the radio is advertising
    startResult,            \* the promise of the last startAdvertising call
    stopResult,             \* the promise of the last stopAdvertising call
    adapterCalls,           \* calls made to the adapter so far
    mBluetoothDevices,      \* the centrals connected to the GATT server
    \* the tablet screen around its BLE initialization
    screenMounted,          \* the effect of TabletScreen is mounted (not cleaned up)
    initPc,                 \* where initializeBLE stands
    listeners,              \* onReceiveData listeners registered on the event emitter
    cleanupListenerCurrent, \* cleanupListener.current is set
    isAdvertising,          \* the isAdvertising state of the screen
    \* a call of one of the pure functions
    arg,                    \* the string it is called with
    fn,                     \* the function that was applied, "none" before the call
    out,                    \* what it returned
    \* the device scan of the initiator screen
    isScanning,             \* the isScanning state of the screen
    scanPc,                 \* performScan: "idle", or "permissions" while it awaits them
    scanSaw,                \* the isScanning the running performScan closed over
    scanRetryCount,         \* its retryCount argument
    scanActive,             \* the adapter is scanning
    scanTimers,             \* the 10 s timers set by performScan
    retryArmed,             \* the 2 s retry timer is armed
    scans,                  \* performScan calls that got past their first line
    manuallyStopped         \* history: handleStopScan ran since the last scan started

adapterVars == <<mBluetoothLeAdvertiser, mAdvertiseCallback, mGattServer, servicesMap,
                 gattServices, advertising, startResult, stopResult, adapterCalls,
                 mBluetoothDevices>>
\* what the tablet screen holds around the handler: the arguments it passes and the
\* peripheral adapter it has set up
screenVars == <<screenMounted, initPc, listeners, cleanupListenerCurrent, isAdvertising>>
pureVars == <<arg, fn, out>>
scanVars == <<isScanning, scanPc, scanSaw, scanRetryCount, scanActive, scanTimers, retryArmed,
              scans, manuallyStopped>>
callerVars == <<serialNumber, hookRegistered, callbackThrows, adapterVars, screenVars,
                pureVars, scanVars>>
respVars == <<deviceDataChunks, deviceConnectionCodes, callerVars,
              tabletStatus, tabletCompleted, requests, identitySends, sessionCompletions,
              connectedDevices>>
mobileVars == <<connectionCode, clock, regPc, isCompleted, subscribed, handlers,
                mobileCompleted, mobileErrors, fragmentsWritten>>
envVars == <<tabletAttached, peerWrites, injected>>
cutVars == <<cutPayload, cutRest>>
pollVars == <<retryCount, pollers, pollHandlers>>
auxVars == <<envVars, cutVars, pollVars>>
vars == <<respVars, inbox, notifications, notified, mobileVars, auxVars>>

\* ------------------------------------------------------------ JavaScript Map
EmptyMap == <<>>
MapHas(m, k) == k \in DOMAIN m
MapSet(m, k, v) == [x \in (DOMAIN m) \cup {k} |-> IF x = k THEN v ELSE m[x]]
MapDelete(m, k) == [x \in (DOMAIN m) \ {k} |-> m[x]]
\* m.get(k) || ''
MapGetOrEmpty(m, k) == IF k \in DOMAIN m THEN m[k] ELSE <<>>

\* ------------------------------------------------------------------- Init
\* the module-level maps and the locals of startIoTRegistration as created
Constructed ==
    /\ deviceDataChunks = EmptyMap
    /\ deviceConnectionCodes = EmptyMap
    /\ tabletStatus = "waiting"
    /\ tabletCompleted = <<>>
    /\ requests = <<>>
    /\ connectedDevices = {}
    /\ identitySends = <<>>
    /\ sessionCompletions = [p \in Peers |-> -1]
    /\ inbox = <<>>
    /\ notifications = <<>>
    /\ notified = [p \in Peers |-> <<>>]
    /\ mBluetoothDevices = {}
    /\ connectionCode \in Codes
    /\ clock \in Clocks
    /\ regPc = "idle"
    /\ isCompleted = FALSE
    /\ subscribed = FALSE
    /\ handlers = <<>>
    /\ mobileCompleted = <<>>
    /\ mobileErrors = <<>>
    /\ fragmentsWritten = 0
    /\ peerWrites = 0
    /\ injected = <<>>
    /\ retryCount = 0
    /\ pollers = <<>>
    /\ pollHandlers = <<>>
    /\ mBluetoothLeAdvertiser = FALSE
    /\ mAdvertiseCallback = FALSE
    /\ mGattServer = FALSE
    /\ servicesMap = EmptyMap
    /\ gattServices = <<>>
    /\ advertising = FALSE
    /\ startResult = "none"
    /\ stopResult = "none"
    /\ adapterCalls = 0
    /\ screenMounted = TRUE
    /\ initPc = "permissions"
    /\ listeners = 0
    /\ cleanupListenerCurrent = FALSE
    /\ isAdvertising = FALSE
    /\ isScanning = FALSE
    /\ scanPc = "idle"
    /\ scanSaw = FALSE
    /\ scanRetryCount = 0
    /\ scanActive = FALSE
    /\ scanTimers = <<>>
    /\ retryArmed = FALSE
    /\ scans = 0
    /\ manuallyStopped = FALSE

\* the responder is running: its caller holds a serial number and passes, or does not
\* pass, a confirmation hook to handleIoTRegistrationData
TabletMounted ==
    /\ serialNumber \in Identities
    /\ hookRegistered \in BOOLEAN
    /\ tabletAttached = TRUE

\* the responder is not part of the specification
TabletAbsent ==
    /\ serialNumber = <<>>
    /\ hookRegistered = FALSE
    /\ callbackThrows = FALSE
    /\ tabletAttached = FALSE

\* no pure function is being called
NoCall ==
    /\ arg = <<>>
    /\ fn = "none"
    /\ out = <<>>

Init ==
    /\ Constructed
    /\ NoCall
    /\ TabletMounted
    /\ callbackThrows = FALSE
    /\ cutPayload = <<>>
    /\ cutRest = <<>>

\* ------------------------------------------------------------- the wire
\* Buffer.from(message, 'utf-8') on the sender (ASCII text: one byte per character)
utf8Bytes(s) == [i \in 1..Len(s) |-> charCode(s[i])]
\* String.fromCharCode(...event.data) in setupDataListener, and the base64/utf-8
\* decoding of monitorCharacteristic
fromCharCodes(bytes) == [i \in 1..Len(bytes) |-> Ascii[bytes[i] - 31]]

\* ------------------------------------------------------------- responder
\* BluetoothClientModule.sendNotificationToDevice as seen from JavaScript: it resolves
\* after notifying every connected device, or rejects; a central that is subscribed
\* receives the value.
NotifyAll(message, ok) ==
    /\ notifications' = IF ok /\ subscribed THEN Append(notifications, utf8Bytes(message))
                        ELSE notifications
    /\ notified' = [d \in Peers |-> IF ok /\ d \in mBluetoothDevices
                                     THEN Append(notified[d], utf8Bytes(message))
                                     ELSE notified[d]]

\* history: one more onComplete call for the device
Completed(deviceId) ==
    [sessionCompletions EXCEPT ![deviceId] = IF @ = -1 THEN -1 ELSE @ + 1]

\* a code that would start the new session by emptying the accumulators of every device
HandleConnectionCodeClearingAll(deviceId, data, ok) ==
    IF validateConnectionCode(data)
    THEN /\ deviceDataChunks' = EmptyMap
         /\ deviceConnectionCodes' = MapSet(deviceConnectionCodes, deviceId, data)
         /\ sessionCompletions' = [sessionCompletions EXCEPT ![deviceId] = 0]
         /\ UNCHANGED tabletCompleted
         /\ IF hookRegistered
            THEN /\ requests' = Append(requests, [deviceId |-> deviceId, code |-> data,
                                                  alertShown |-> TRUE, timer |-> "armed"])
                 /\ tabletStatus' = "code received"
                 /\ UNCHANGED <<notifications, notified, identitySends>>
            ELSE /\ NotifyAll(serialNumber, ok)
                 /\ identitySends' = Append(identitySends, [request |-> 0, deviceId |-> deviceId,
                                                            code |-> data, ok |-> ok])
                 /\ tabletStatus' = IF ok THEN "serial number sent" ELSE "serial number send failed"
                 /\ UNCHANGED requests
    ELSE /\ tabletStatus' = "invalid connection code"
         /\ UNCHANGED <<deviceDataChunks, deviceConnectionCodes, tabletCompleted, requests,
                        notifications, notified, identitySends, sessionCompletions>>

\* case 'connectionCode'
HandleConnectionCode(deviceId, data, ok) ==
    IF validateConnectionCode(data)
    THEN /\ deviceDataChunks' = MapDelete(deviceDataChunks, deviceId)
         /\ deviceConnectionCodes' = MapSet(deviceConnectionCodes, deviceId, data)
         /\ sessionCompletions' = [sessionCompletions EXCEPT ![deviceId] = 0]
         /\ UNCHANGED tabletCompleted
         /\ IF hookRegistered
            THEN \* the hook of TabletScreen arms its 30 s timer and shows the dialog
                 /\ requests' = Append(requests, [deviceId |-> deviceId, code |-> data,
                                                  alertShown |-> TRUE, timer |-> "armed"])
                 /\ tabletStatus' = "code received"
                 /\ UNCHANGED <<notifications, notified, identitySends>>
            ELSE /\ NotifyAll(serialNumber, ok)
                 /\ identitySends' = Append(identitySends, [request |-> 0, deviceId |-> deviceId,
                                                            code |-> data, ok |-> ok])
                 /\ tabletStatus' = IF ok THEN "serial number sent" ELSE "serial number send failed"
                 /\ UNCHANGED requests
    ELSE /\ tabletStatus' = "invalid connection code"
         /\ UNCHANGED <<deviceDataChunks, deviceConnectionCodes, tabletCompleted, requests,
                        notifications, notified, identitySends, sessionCompletions>>

\* a completion that would clear the maps of every device
HandleJwtTokenClearingAll(deviceId, data) ==
    /\ tabletStatus' = "registration complete"
    /\ tabletCompleted' = Append(tabletCompleted,
            [deviceId |-> deviceId,
             connectionCode |-> MapGetOrEmpty(deviceConnectionCodes, deviceId),
             serialNumber |-> serialNumber,
             jwtToken |-> data])
    /\ deviceDataChunks' = EmptyMap
    /\ deviceConnectionCodes' = EmptyMap
    /\ sessionCompletions' = Completed(deviceId)
    /\ UNCHANGED <<requests, notifications, notified, identitySends>>

\* a completion that would keep the stored code of the device
HandleJwtTokenKeepingCode(deviceId, data) ==
    /\ tabletStatus' = "registration complete"
    /\ tabletCompleted' = Append(tabletCompleted,
            [deviceId |-> deviceId,
             connectionCode |-> MapGetOrEmpty(deviceConnectionCodes, deviceId),
             serialNumber |-> serialNumber,
             jwtToken |-> data])
    /\ deviceDataChunks' = MapDelete(deviceDataChunks, deviceId)
    /\ sessionCompletions' = Completed(deviceId)
    /\ UNCHANGED <<deviceConnectionCodes, requests, notifications, notified, identitySends>>

\* a completion whose throwing callback would go unreported
HandleJwtTokenUnreported(deviceId, data) ==
    /\ tabletStatus' = "registration complete"
    /\ tabletCompleted' = Append(tabletCompleted,
            [deviceId |-> deviceId,
             connectionCode |-> MapGetOrEmpty(deviceConnectionCodes, deviceId),
             serialNumber |-> serialNumber,
             jwtToken |-> data])
    /\ sessionCompletions' = Completed(deviceId)
    /\ IF callbackThrows
       THEN UNCHANGED <<deviceDataChunks, deviceConnectionCodes>>
       ELSE /\ deviceDataChunks' = MapDelete(deviceDataChunks, deviceId)
            /\ deviceConnectionCodes' = MapDelete(deviceConnectionCodes, deviceId)
    /\ UNCHANGED <<requests, notifications, notified, identitySends>>

\* a completion that would report the credential behind what the accumulator holds
HandleJwtTokenThroughAccumulator(deviceId, data) ==
    /\ tabletCompleted' = Append(tabletCompleted,
            [deviceId |-> deviceId,
             connectionCode |-> MapGetOrEmpty(deviceConnectionCodes, deviceId),
             serialNumber |-> serialNumber,
             jwtToken |-> MapGetOrEmpty(deviceDataChunks, deviceId) \o data])
    /\ sessionCompletions' = Completed(deviceId)
    /\ IF callbackThrows
       THEN /\ tabletStatus' = "data processing failed"
            /\ UNCHANGED <<deviceDataChunks, deviceConnectionCodes>>
       ELSE /\ tabletStatus' = "registration complete"
            /\ deviceDataChunks' = MapDelete(deviceDataChunks, deviceId)
            /\ deviceConnectionCodes' = MapDelete(deviceConnectionCodes, deviceId)
    /\ UNCHANGED <<requests, notifications, notified, identitySends>>

\* case 'jwtToken': onComplete is called with the result, and the two deletes that
\* follow it are skipped when it throws into the catch of the handler
HandleJwtToken(deviceId, data) ==
    /\ tabletCompleted' = Append(tabletCompleted,
            [deviceId |-> deviceId,
             connectionCode |-> MapGetOrEmpty(deviceConnectionCodes, deviceId),
             serialNumber |-> serialNumber,
             jwtToken |-> data])
    /\ sessionCompletions' = Completed(deviceId)
    /\ IF callbackThrows
       THEN /\ tabletStatus' = "data processing failed"
            /\ UNCHANGED <<deviceDataChunks, deviceConnectionCodes>>
       ELSE /\ tabletStatus' = "registration complete"
            /\ deviceDataChunks' = MapDelete(deviceDataChunks, deviceId)
            /\ deviceConnectionCodes' = MapDelete(deviceConnectionCodes, deviceId)
    /\ UNCHANGED <<requests, notifications, notified, identitySends>>

\* a default branch that would take the payload for the device's code
HandleChunkStoringCode(deviceId, data) ==
    /\ tabletStatus' = "receiving token"
    /\ deviceConnectionCodes' = MapSet(deviceConnectionCodes, deviceId, data)
    /\ UNCHANGED <<deviceDataChunks, tabletCompleted, requests, notifications, notified, identitySends,
                   sessionCompletions>>

\* a default branch that would put the payload in front of what the accumulator holds
HandleChunkPrepending(deviceId, data) ==
    LET existingChunks == MapGetOrEmpty(deviceDataChunks, deviceId)
        combinedData == data \o existingChunks
        startIndex == indexOf(combinedData, START_MARK) + 5
        endIndex == indexOf(combinedData, END_MARK)
    IN /\ UNCHANGED <<requests, notifications, notified, identitySends>>
       /\ IF includes(combinedData, END_MARK)
          THEN IF startIndex >= 5 /\ endIndex > startIndex
               THEN /\ tabletCompleted' = Append(tabletCompleted,
                           [deviceId |-> deviceId,
                            connectionCode |-> MapGetOrEmpty(deviceConnectionCodes, deviceId),
                            serialNumber |-> serialNumber,
                            jwtToken |-> substring(combinedData, startIndex, endIndex)])
                    /\ sessionCompletions' = Completed(deviceId)
                    /\ IF callbackThrows
                       THEN /\ tabletStatus' = "data processing failed"
                            /\ deviceDataChunks' =
                                   MapSet(deviceDataChunks, deviceId, combinedData)
                            /\ UNCHANGED deviceConnectionCodes
                       ELSE /\ tabletStatus' = "registration complete"
                            /\ deviceDataChunks' = MapDelete(deviceDataChunks, deviceId)
                            /\ deviceConnectionCodes' =
                                   MapDelete(deviceConnectionCodes, deviceId)
               ELSE /\ tabletStatus' = "token parse error"
                    /\ deviceDataChunks' = MapSet(deviceDataChunks, deviceId, combinedData)
                    /\ UNCHANGED <<deviceConnectionCodes, tabletCompleted, sessionCompletions>>
          ELSE /\ tabletStatus' = "receiving token"
               /\ deviceDataChunks' = MapSet(deviceDataChunks, deviceId, combinedData)
               /\ UNCHANGED <<deviceConnectionCodes, tabletCompleted, sessionCompletions>>

\* default: a chunk of the START...END stream
HandleChunk(deviceId, data) ==
    LET existingChunks == MapGetOrEmpty(deviceDataChunks, deviceId)
        combinedData == existingChunks \o data
        startIndex == indexOf(combinedData, START_MARK) + 5
        endIndex == indexOf(combinedData, END_MARK)
    IN /\ UNCHANGED <<requests, notifications, notified, identitySends>>
       /\ IF includes(combinedData, END_MARK)
          THEN IF startIndex >= 5 /\ endIndex > startIndex
               THEN /\ tabletCompleted' = Append(tabletCompleted,
                           [deviceId |-> deviceId,
                            connectionCode |-> MapGetOrEmpty(deviceConnectionCodes, deviceId),
                            serialNumber |-> serialNumber,
                            jwtToken |-> substring(combinedData, startIndex, endIndex)])
                    /\ sessionCompletions' = Completed(deviceId)
                    /\ IF callbackThrows
                       THEN /\ tabletStatus' = "data processing failed"
                            /\ deviceDataChunks' =
                                   MapSet(deviceDataChunks, deviceId, combinedData)
                            /\ UNCHANGED deviceConnectionCodes
                       ELSE /\ tabletStatus' = "registration complete"
                            /\ deviceDataChunks' = MapDelete(deviceDataChunks, deviceId)
                            /\ deviceConnectionCodes' =
                                   MapDelete(deviceConnectionCodes, deviceId)
               ELSE /\ tabletStatus' = "token parse error"
                    /\ deviceDataChunks' = MapSet(deviceDataChunks, deviceId, combinedData)
                    /\ UNCHANGED <<deviceConnectionCodes, tabletCompleted, sessionCompletions>>
          ELSE /\ tabletStatus' = "receiving token"
               /\ deviceDataChunks' = MapSet(deviceDataChunks, deviceId, combinedData)
               /\ UNCHANGED <<deviceConnectionCodes, tabletCompleted, sessionCompletions>>

handleIoTRegistrationData(deviceId, data, ok) ==
    LET dataType == getDataType(data)
    IN CASE dataType = "connectionCode" -> HandleConnectionCode(deviceId, data, ok)
         [] dataType = "jwtToken" -> HandleJwtToken(deviceId, data)
         [] OTHER -> HandleChunk(deviceId, data)

\* the onReceiveData listener of setupDataListener calling TabletScreen.onDataReceived,
\* which awaits handleIoTRegistrationData for the oldest unhandled write
TabletReceive ==
    /\ inbox # <<>>
    /\ inbox' = Tail(inbox)
    /\ LET deviceId == Head(inbox).device
           data == fromCharCodes(Head(inbox).data)
           sends == ~hookRegistered /\ getDataType(data) = "connectionCode"
       IN \E ok \in BOOLEAN :
            /\ ok \/ sends
            /\ handleIoTRegistrationData(deviceId, data, ok)
    /\ connectedDevices' = connectedDevices \cup {Head(inbox).device}
    /\ UNCHANGED <<callerVars, mobileVars, auxVars>>

\* the setTimeout callback of the hook, 30 s after the code was received
ConfirmTimeout(r) ==
    /\ r \in 1..Len(requests)
    /\ requests[r].timer = "armed"
    /\ IF requests[r].alertShown
       THEN tabletStatus' = "connection request timed out"
       ELSE UNCHANGED tabletStatus
    /\ requests' = [requests EXCEPT ![r].timer = "fired"]
    /\ UNCHANGED <<deviceDataChunks, deviceConnectionCodes, callerVars,
                   tabletCompleted, identitySends, sessionCompletions, connectedDevices, inbox,
                   notifications, notified, mobileVars, auxVars>>

\* clearTimeout(timeoutId): a timer that already ran stays as it is
ClearTimer(t) == IF t = "armed" THEN "cleared" ELSE t

\* the dialog's cancel button
PressCancel(r) ==
    /\ r \in 1..Len(requests)
    /\ requests[r].alertShown
    /\ requests' = [requests EXCEPT ![r].timer = ClearTimer(@), ![r].alertShown = FALSE]
    /\ tabletStatus' = "connection request rejected"
    /\ UNCHANGED <<deviceDataChunks, deviceConnectionCodes, callerVars,
                   tabletCompleted, identitySends, sessionCompletions, connectedDevices, inbox,
                   notifications, notified, mobileVars, auxVars>>

\* the dialog's connect button: onConfirm() is sendSerialNumber
PressConfirm(r, ok) ==
    /\ r \in 1..Len(requests)
    /\ requests[r].alertShown
    /\ requests' = [requests EXCEPT ![r].timer = ClearTimer(@), ![r].alertShown = FALSE]
    /\ NotifyAll(serialNumber, ok)
    /\ identitySends' = Append(identitySends, [request |-> r, deviceId |-> requests[r].deviceId,
                                               code |-> requests[r].code, ok |-> ok])
    /\ tabletStatus' = IF ok THEN "serial number sent" ELSE "serial number send failed"
    /\ UNCHANGED <<deviceDataChunks, deviceConnectionCodes, callerVars,
                   tabletCompleted, sessionCompletions, connectedDevices, inbox, mobileVars,
                   auxVars>>

\* ------------------------------------------------------------- initiator
\* writeData: a confirmed write reaches the responder's inbound-write event queue
Written(deviceId, message) ==
    IF tabletAttached THEN Append(inbox, [device |-> deviceId, data |-> utf8Bytes(message)])
    ELSE inbox

\* a start that would monitor the characteristic even though the code write failed
WriteCodeThenMonitor(ok) ==
    /\ regPc = "idle"
    /\ subscribed' = TRUE
    /\ IF ok
       THEN /\ inbox' = Written(Initiator, connectionCode)
            /\ regPc' = "monitoring"
            /\ UNCHANGED mobileErrors
       ELSE /\ regPc' = "rejected"
            /\ mobileErrors' = Append(mobileErrors, "code write failed")
            /\ UNCHANGED inbox
    /\ UNCHANGED <<respVars, notifications, notified, connectionCode, clock, isCompleted, handlers,
                   mobileCompleted, fragmentsWritten, auxVars>>

\* startIoTRegistration up to the return of the Subscription
WriteCode(ok) ==
    /\ regPc = "idle"
    /\ IF ok
       THEN /\ inbox' = Written(Initiator, connectionCode)
            /\ regPc' = "monitoring"
            /\ subscribed' = TRUE
            /\ UNCHANGED mobileErrors
       ELSE /\ regPc' = "rejected"
            /\ mobileErrors' = Append(mobileErrors, "code write failed")
            /\ UNCHANGED <<inbox, subscribed>>
    /\ UNCHANGED <<respVars, notifications, notified, connectionCode, clock, isCompleted, handlers,
                   mobileCompleted, fragmentsWritten, auxVars>>

\* a data callback that would process a payload of any class as an identity
DeliverNotificationAnyClass ==
    /\ notifications # <<>>
    /\ notifications' = Tail(notifications)
    /\ LET data == fromCharCodes(Head(notifications))
       IN IF subscribed /\ data # <<>> /\ ~isCompleted
          THEN handlers' = Append(handlers, [data |-> data, pc |-> "issuing",
                                             jwtToken |-> <<>>, next |-> 0])
          ELSE UNCHANGED handlers
    /\ UNCHANGED <<respVars, inbox, notified, connectionCode, clock, regPc, isCompleted,
                   subscribed, mobileCompleted, mobileErrors, fragmentsWritten, auxVars>>

\* the monitor callback with a value: the data callback up to its first await
DeliverNotification ==
    /\ notifications # <<>>
    /\ notifications' = Tail(notifications)
    /\ LET data == fromCharCodes(Head(notifications))
       IN IF subscribed /\ data # <<>> /\ ~isCompleted /\ getDataType(data) = "serialNumber"
          THEN handlers' = Append(handlers, [data |-> data, pc |-> "issuing",
                                             jwtToken |-> <<>>, next |-> 0])
          ELSE UNCHANGED handlers
    /\ UNCHANGED <<respVars, inbox, notified, connectionCode, clock, regPc, isCompleted,
                   subscribed, mobileCompleted, mobileErrors, fragmentsWritten, auxVars>>

\* simulateServerRequest resolves
IssuerReturn(h) ==
    /\ h \in 1..Len(handlers)
    /\ handlers[h].pc = "issuing"
    /\ handlers' = [handlers EXCEPT ![h].pc = "writing",
                                   ![h].jwtToken = generateJwtToken(handlers[h].data, clock),
                                   ![h].next = 1]
    /\ UNCHANGED <<respVars, inbox, notifications, notified, connectionCode, clock, regPc, isCompleted,
                   subscribed, mobileCompleted, mobileErrors, fragmentsWritten, auxVars>>

markedJwtToken(jwtToken) == START_MARK \o jwtToken \o END_MARK

\* a transfer that would end without marking the registration completed and without
\* removing the subscription
WriteFragmentNotMarking(h, ok) ==
    /\ h \in 1..Len(handlers)
    /\ handlers[h].pc = "writing"
    /\ ok
    /\ inbox' = Written(Initiator, chunksOf(markedJwtToken(handlers[h].jwtToken))[handlers[h].next])
    /\ fragmentsWritten' = fragmentsWritten + 1
    /\ handlers' = IF handlers[h].next < Len(chunksOf(markedJwtToken(handlers[h].jwtToken)))
                   THEN [handlers EXCEPT ![h].next = @ + 1]
                   ELSE [handlers EXCEPT ![h].pc = "done"]
    /\ UNCHANGED <<respVars, notifications, notified, connectionCode, clock, regPc, isCompleted,
                   subscribed, mobileCompleted, mobileErrors, auxVars>>

\* one pass of the loop of writeDataInChunks; after the last chunk the data callback
\* sets isCompleted and removes the subscription, and a failed write lands in its catch
WriteFragment(h, ok) ==
    /\ h \in 1..Len(handlers)
    /\ handlers[h].pc = "writing"
    /\ LET chunks == chunksOf(markedJwtToken(handlers[h].jwtToken))
           i == handlers[h].next
       IN IF ok
          THEN /\ inbox' = Written(Initiator, chunks[i])
               /\ fragmentsWritten' = fragmentsWritten + 1
               /\ UNCHANGED mobileErrors
               /\ IF i < Len(chunks)
                  THEN /\ handlers' = [handlers EXCEPT ![h].next = i + 1]
                       /\ UNCHANGED <<isCompleted, subscribed>>
                  ELSE /\ handlers' = [handlers EXCEPT ![h].pc = "settle"]
                       /\ isCompleted' = TRUE
                       /\ subscribed' = FALSE
          ELSE /\ handlers' = [handlers EXCEPT ![h].pc = "failed"]
               /\ isCompleted' = TRUE
               /\ subscribed' = FALSE
               /\ mobileErrors' = Append(mobileErrors, "token transfer failed")
               /\ UNCHANGED <<inbox, fragmentsWritten>>
    /\ UNCHANGED <<respVars, notifications, notified, connectionCode, clock, regPc, mobileCompleted,
                   auxVars>>

\* after the 500 ms settle: onComplete, whose caller (the mobile screen) removes the
\* subscription
Settle(h) ==
    /\ h \in 1..Len(handlers)
    /\ handlers[h].pc = "settle"
    /\ handlers' = [handlers EXCEPT ![h].pc = "done"]
    /\ mobileCompleted' = Append(mobileCompleted, [serialNumber |-> handlers[h].data,
                                                   jwtToken |-> handlers[h].jwtToken])
    /\ subscribed' = FALSE
    /\ UNCHANGED <<respVars, inbox, notifications, notified, connectionCode, clock, regPc, isCompleted,
                   mobileErrors, fragmentsWritten, auxVars>>

\* the monitor callback with an error: the error callback of startIoTRegistration; the
\* caller's onError removes the subscription
MonitorError ==
    /\ subscribed
    /\ IF isCompleted
       THEN UNCHANGED <<mobileErrors, subscribed>>
       ELSE /\ mobileErrors' = Append(mobileErrors, "monitoring error")
            /\ subscribed' = FALSE
    /\ UNCHANGED <<respVars, inbox, notifications, notified, connectionCode, clock, regPc, isCompleted,
                   handlers, mobileCompleted, fragmentsWritten, auxVars>>

\* ------------------------------------------------- end-to-end specification
\* one initiator and the responder, the issuer of the repository, every failure
Next ==
    \/ TabletReceive
    \/ \E r \in 1..Len(requests) : ConfirmTimeout(r)
    \/ \E r \in 1..Len(requests) : PressCancel(r)
    \/ \E r \in 1..Len(requests), ok \in BOOLEAN : PressConfirm(r, ok)
    \/ \E ok \in BOOLEAN : WriteCode(ok)
    \/ DeliverNotification
    \/ \E h \in 1..Len(handlers) : IssuerReturn(h)
    \/ \E h \in 1..Len(handlers), ok \in BOOLEAN : WriteFragment(h, ok)
    \/ \E h \in 1..Len(handlers) : Settle(h)
    \/ MonitorError

Spec == Init /\ [][Next]_vars

\* ------------------------------------------------- responder specification
\* any connected central writes any payload to the responder's characteristic
PeerWrite(deviceId, data) ==
    /\ peerWrites < MaxPeerWrites
    /\ peerWrites' = peerWrites + 1
    /\ inbox' = Written(deviceId, data)
    /\ UNCHANGED <<respVars, notifications, notified, mobileVars, tabletAttached, injected, cutVars,
                   pollVars>>

\* resetConnection of the tablet screen: it resets the screen's own state; the maps of
\* the manager are not reachable from the screen
ResetConnection ==
    /\ connectedDevices' = {}
    /\ tabletStatus' = "waiting"
    /\ UNCHANGED <<deviceDataChunks, deviceConnectionCodes, callerVars,
                   tabletCompleted, requests, identitySends, sessionCompletions, inbox,
                   notifications, notified, mobileVars, auxVars>>

\* the responder alone, driven by arbitrary centrals and by the person at the dialog
NextTablet ==
    \/ \E deviceId \in Peers, data \in PeerPayloads : PeerWrite(deviceId, data)
    \/ TabletReceive
    \/ \E r \in 1..Len(requests) : ConfirmTimeout(r)
    \/ \E r \in 1..Len(requests) : PressCancel(r)
    \/ \E r \in 1..Len(requests), ok \in BOOLEAN : PressConfirm(r, ok)

SpecTablet == Init /\ [][NextTablet]_vars

\* the responder handed a completion callback that throws
InitThrow ==
    /\ Constructed
    /\ NoCall
    /\ TabletMounted
    /\ callbackThrows = TRUE
    /\ cutPayload = <<>>
    /\ cutRest = <<>>

SpecThrow == InitThrow /\ [][NextTablet]_vars

\* the responder with the reset button of its screen
NextReset ==
    \/ NextTablet
    \/ ResetConnection

SpecReset == Init /\ [][NextReset]_vars

\* ------------------------------------------------ reassembly specification
\* payloads whose marked stream is cut in every way: a plain one, one that makes the
\* first six characters of the stream upper case, the shape of a credential, and one
\* with a run of digits as in the issuer's signature
CutPayloads == {<<"a", ".", "b">>, <<"A">>, WholeCredential,
                <<"x", "1", "2", "3", "4", "5", "6">>}

InitCut ==
    /\ Constructed
    /\ NoCall
    /\ TabletMounted
    /\ callbackThrows = FALSE
    /\ cutPayload \in CutPayloads
    /\ cutRest = markedJwtToken(cutPayload)

\* the next n characters of the stream arrive as one write of the initiator's device
\* and are handled by handleIoTRegistrationData
CutDeliver(n) ==
    /\ n \in 1..Len(cutRest)
    /\ cutRest' = SubSeq(cutRest, n + 1, Len(cutRest))
    /\ \E ok \in BOOLEAN :
          /\ ok \/ (~hookRegistered /\ getDataType(SubSeq(cutRest, 1, n)) = "connectionCode")
          /\ handleIoTRegistrationData(Initiator, SubSeq(cutRest, 1, n), ok)
    /\ UNCHANGED <<callerVars, connectedDevices, inbox, mobileVars, envVars,
                   cutPayload, pollVars>>

NextCut == \E n \in 1..Len(cutRest) : CutDeliver(n)

SpecCut == InitCut /\ [][NextCut]_vars

\* ------------------------------------------------ two centrals at once
\* what each of two centrals writes, in its order: its code, then its marked
\* credential in two fragments
OtherStreamHead == <<"S", "T", "A", "R", "T", "c", ".">>
OtherStreamTail == <<"d", "E", "N", "D">>
WritesOf(deviceId) ==
    IF deviceId = Initiator
    THEN <<CHOOSE c \in Codes : TRUE, StreamHead, StreamTail>>
    ELSE <<PeerCode, OtherStreamHead, OtherStreamTail>>

\* the onReceiveData events of two centrals in every order of arrival that keeps the
\* order of each central's own writes
RECURSIVE Interleavings(_, _)
Interleavings(a, b) ==
    IF a = <<>> THEN {b}
    ELSE IF b = <<>> THEN {a}
    ELSE {<<Head(a)>> \o rest : rest \in Interleavings(Tail(a), b)}
         \cup {<<Head(b)>> \o rest : rest \in Interleavings(a, Tail(b))}

EventsOf(deviceId) ==
    [i \in 1..Len(WritesOf(deviceId)) |->
        [device |-> deviceId, data |-> utf8Bytes(WritesOf(deviceId)[i])]]

\* the writes of both centrals have arrived and none is handled yet
InitTwoPeers ==
    /\ Constructed
    /\ NoCall
    /\ TabletMounted
    /\ callbackThrows = FALSE
    /\ cutPayload = <<>>
    /\ cutRest = <<>>

TwoPeersArrive ==
    /\ peerWrites = 0
    /\ inbox = <<>>
    /\ \E events \in Interleavings(EventsOf(Initiator), EventsOf(OtherPeer)) :
          /\ inbox' = events
          /\ peerWrites' = Len(events)
    /\ UNCHANGED <<respVars, notifications, notified, mobileVars, tabletAttached, injected, cutVars,
                   pollVars>>

NextTwoPeers ==
    \/ TwoPeersArrive
    \/ TabletReceive
    \/ \E r \in 1..Len(requests) : ConfirmTimeout(r)
    \/ \E r \in 1..Len(requests) : PressCancel(r)
    \/ \E r \in 1..Len(requests), ok \in BOOLEAN : PressConfirm(r, ok)

SpecTwoPeers == InitTwoPeers /\ [][NextTwoPeers]_vars

\* ------------------------------------------- the centrals of the GATT server
\* everything but the set of connected centrals
notGattVars == <<deviceDataChunks, deviceConnectionCodes, serialNumber, hookRegistered,
                 callbackThrows, mBluetoothLeAdvertiser, mAdvertiseCallback, mGattServer,
                 servicesMap, gattServices, advertising, startResult, stopResult,
                 adapterCalls, screenVars, pureVars, scanVars, tabletStatus,
                 tabletCompleted, requests, identitySends, sessionCompletions,
                 connectedDevices, inbox, notifications, notified, mobileVars, auxVars>>

\* BluetoothGattServerCallback.onConnectionStateChange: a central that connected with
\* success joins mBluetoothDevices; one that disconnected, or whose change failed, leaves
onConnectionStateChange(device, success, connected) ==
    /\ mBluetoothDevices' = IF success /\ connected
                            THEN mBluetoothDevices \cup {device}
                            ELSE mBluetoothDevices \ {device}
    /\ UNCHANGED notGattVars

\* a central writes to the characteristic over its connection
ConnectedWrite(deviceId, data) ==
    /\ deviceId \in mBluetoothDevices
    /\ PeerWrite(deviceId, data)

\* what a connected central writes here: a code, or a payload that is none
FanoutPayloads == {PeerCode, WrongShapeCode}

\* the responder with the connections of its centrals
NextFanout ==
    \/ \E device \in Peers, success \in BOOLEAN, connected \in BOOLEAN :
          onConnectionStateChange(device, success, connected)
    \/ \E deviceId \in Peers, data \in FanoutPayloads : ConnectedWrite(deviceId, data)
    \/ TabletReceive
    \/ \E r \in 1..Len(requests) : ConfirmTimeout(r)
    \/ \E r \in 1..Len(requests) : PressCancel(r)
    \/ \E r \in 1..Len(requests), ok \in BOOLEAN : PressConfirm(r, ok)

SpecFanout == Init /\ [][NextFanout]_vars

\* ------------------------------------ the responder with a send in flight
\* the sendNotification a handler awaits has not settled
Awaiting(send) == "awaiting" \in DOMAIN send /\ send.awaiting

\* the onReceiveData listener for a valid code when no hook is passed: the handler runs
\* up to `await sendNotification(...)` and the listener returns, so the next write is
\* handled while this handler is suspended
ReceiveCodeSuspending ==
    /\ inbox # <<>>
    /\ ~hookRegistered
    /\ LET deviceId == Head(inbox).device
           data == fromCharCodes(Head(inbox).data)
       IN /\ getDataType(data) = "connectionCode"
          /\ validateConnectionCode(data)
          /\ deviceDataChunks' = MapDelete(deviceDataChunks, deviceId)
          /\ deviceConnectionCodes' = MapSet(deviceConnectionCodes, deviceId, data)
          /\ sessionCompletions' = [sessionCompletions EXCEPT ![deviceId] = 0]
          /\ identitySends' = Append(identitySends, [request |-> 0, deviceId |-> deviceId,
                                                     code |-> data, ok |-> FALSE,
                                                     awaiting |-> TRUE])
    /\ inbox' = Tail(inbox)
    /\ tabletStatus' = "code received"
    /\ connectedDevices' = connectedDevices \cup {Head(inbox).device}
    /\ UNCHANGED <<callerVars, tabletCompleted, requests, notifications, notified, mobileVars,
                   auxVars>>

\* the awaited sendNotification settles and the suspended handler runs to its end
SendNotificationSettles(i, ok) ==
    /\ i \in 1..Len(identitySends)
    /\ Awaiting(identitySends[i])
    /\ NotifyAll(serialNumber, ok)
    /\ identitySends' = [identitySends EXCEPT ![i] = [request |-> 0, deviceId |-> @.deviceId,
                                                      code |-> @.code, ok |-> ok,
                                                      awaiting |-> FALSE]]
    /\ tabletStatus' = IF ok THEN "serial number sent" ELSE "serial number send failed"
    /\ UNCHANGED <<deviceDataChunks, deviceConnectionCodes, callerVars, tabletCompleted,
                   requests, sessionCompletions, connectedDevices, inbox, mobileVars, auxVars>>

\* the responder is running without a confirmation hook, with a completion callback
\* that returns or one that throws
InitAwait ==
    /\ Constructed
    /\ NoCall
    /\ TabletMounted
    /\ ~hookRegistered
    /\ callbackThrows \in BOOLEAN
    /\ cutPayload = <<>>
    /\ cutRest = <<>>

\* what the centrals write here: a code and the two halves of a stream
AwaitPayloads == {PeerCode, StreamHead, StreamTail}

\* the responder whose handlers of consecutive writes interleave at their awaits
NextAwait ==
    \/ \E deviceId \in Peers, data \in AwaitPayloads : PeerWrite(deviceId, data)
    \/ TabletReceive
    \/ ReceiveCodeSuspending
    \/ \E i \in 1..Len(identitySends), ok \in BOOLEAN : SendNotificationSettles(i, ok)

SpecAwait == InitAwait /\ [][NextAwait]_vars

\* -------------------------------------------------- initiator specification
InitMobile ==
    /\ Constructed
    /\ NoCall
    /\ TabletAbsent
    /\ cutPayload = <<>>
    /\ cutRest = <<>>

\* the responder's characteristic notifies a value to the subscribed initiator
InjectNotification(data, limit) ==
    /\ subscribed
    /\ Len(injected) < limit
    /\ injected' = Append(injected, data)
    /\ notifications' = Append(notifications, utf8Bytes(data))
    /\ UNCHANGED <<respVars, inbox, notified, mobileVars, tabletAttached, peerWrites, cutVars,
                   pollVars>>

\* the initiator alone: its writes are confirmed or rejected by the link, and the
\* notifications are whatever the responder's characteristic sends
NextMobile ==
    \/ \E ok \in BOOLEAN : WriteCode(ok)
    \/ \E data \in LinkPayloads : InjectNotification(data, MaxNotifications)
    \/ DeliverNotification
    \/ \E h \in 1..Len(handlers) : IssuerReturn(h)
    \/ \E h \in 1..Len(handlers), ok \in BOOLEAN : WriteFragment(h, ok)
    \/ \E h \in 1..Len(handlers) : Settle(h)
    \/ MonitorError

SpecMobile == InitMobile /\ [][NextMobile]_vars

\* handleDisconnect, and the cleanup of the screen's effect: while the caller holds the
\* Subscription that startIoTRegistration returned (it drops it in its onComplete and
\* onError) it removes it; regPc records that with "removed"
RemoveSubscription ==
    /\ regPc = "monitoring"
    /\ mobileCompleted = <<>>
    /\ mobileErrors = <<>>
    /\ regPc' = "removed"
    /\ subscribed' = FALSE
    /\ UNCHANGED <<respVars, inbox, notifications, notified, connectionCode, clock, isCompleted,
                   handlers, mobileCompleted, mobileErrors, fragmentsWritten, auxVars>>

\* the initiator alone, with a caller that may disconnect or unmount at any moment
NextRemove ==
    \/ \E ok \in BOOLEAN : WriteCode(ok)
    \/ \E data \in LinkPayloads : InjectNotification(data, MaxNotifications)
    \/ DeliverNotification
    \/ \E h \in 1..Len(handlers) : IssuerReturn(h)
    \/ \E h \in 1..Len(handlers), ok \in BOOLEAN : WriteFragment(h, ok)
    \/ \E h \in 1..Len(handlers) : Settle(h)
    \/ MonitorError
    \/ RemoveSubscription

SpecRemove == InitMobile /\ [][NextRemove]_vars

\* ------------------------------------------- iOS fallback of the initiator
\* maxRetries of monitorCharacteristic on iOS, and maxPolls of the poller
maxRetries == 3
maxPolls == 40

\* what a read of the characteristic may return: nothing, the code the initiator wrote
\* itself, or the identity the responder has set
ReadValues == {<<>>} \cup Codes \cup LinkPayloads

\* the monitor callback with a 'notify change failed' error: monitorCharacteristic
\* restarts the monitor up to maxRetries times, then hands the error to the error
\* callback of startIoTRegistration, which starts a poller
NotifyFailed ==
    /\ subscribed
    /\ IF retryCount < maxRetries
       THEN /\ retryCount' = retryCount + 1
            /\ UNCHANGED pollers
       ELSE /\ UNCHANGED retryCount
            /\ IF isCompleted
               THEN UNCHANGED pollers
               ELSE /\ Len(pollers) < MaxPollers
                    /\ pollers' = Append(pollers, [pollCount |-> 0,
                                                   lastReadValue |-> connectionCode,
                                                   cleared |-> FALSE, reading |-> 0])
    /\ UNCHANGED <<respVars, inbox, notifications, notified, mobileVars, envVars, cutVars, pollHandlers>>

\* one run of the setInterval callback up to its read
PollTick(p) ==
    /\ p \in 1..Len(pollers)
    /\ ~pollers[p].cleared
    /\ IF isCompleted
       THEN /\ pollers' = [pollers EXCEPT ![p].cleared = TRUE]
            /\ UNCHANGED <<mobileErrors, subscribed>>
       ELSE IF pollers[p].pollCount + 1 > maxPolls
            THEN \* the caller's onError removes the subscription
                 /\ pollers' = [pollers EXCEPT ![p].pollCount = @ + 1, ![p].cleared = TRUE]
                 /\ mobileErrors' = Append(mobileErrors, "poll timeout")
                 /\ subscribed' = FALSE
            ELSE /\ pollers[p].reading < MaxReadsInFlight
                 /\ pollers' = [pollers EXCEPT ![p].pollCount = @ + 1, ![p].reading = @ + 1]
                 /\ UNCHANGED <<mobileErrors, subscribed>>
    /\ UNCHANGED <<respVars, inbox, notifications, notified, connectionCode, clock, regPc, isCompleted,
                   handlers, mobileCompleted, fragmentsWritten, envVars, cutVars, retryCount,
                   pollHandlers>>

\* data && data !== lastReadValue && data !== connectionCode && data.trim().length > 0
IsNewValue(data, lastReadValue) ==
    /\ data # <<>>
    /\ data # lastReadValue
    /\ data # connectionCode
    /\ \E i \in 1..Len(data) : data[i] # " "

\* a read of the poller returns (an empty value or a failed read changes nothing)
PollReadReturn(p, data) ==
    /\ p \in 1..Len(pollers)
    /\ pollers[p].reading > 0
    /\ IF IsNewValue(data, pollers[p].lastReadValue)
       THEN /\ pollers' = [pollers EXCEPT ![p].reading = @ - 1, ![p].cleared = TRUE,
                                          ![p].lastReadValue = data]
            /\ isCompleted' = TRUE
            /\ IF getDataType(data) = "serialNumber"
               THEN pollHandlers' = Append(pollHandlers, [data |-> data, pc |-> "issuing",
                                                          jwtToken |-> <<>>, next |-> 0])
               ELSE UNCHANGED pollHandlers
       ELSE /\ pollers' = [pollers EXCEPT ![p].reading = @ - 1]
            /\ UNCHANGED <<isCompleted, pollHandlers>>
    /\ UNCHANGED <<respVars, inbox, notifications, notified, connectionCode, clock, regPc, subscribed,
                   handlers, mobileCompleted, mobileErrors, fragmentsWritten, envVars, cutVars,
                   retryCount>>

\* simulateServerRequest resolves for a polled value
PollIssuerReturn(h) ==
    /\ h \in 1..Len(pollHandlers)
    /\ pollHandlers[h].pc = "issuing"
    /\ pollHandlers' = [pollHandlers EXCEPT
                           ![h].pc = "writing",
                           ![h].jwtToken = generateJwtToken(pollHandlers[h].data, clock),
                           ![h].next = 1]
    /\ UNCHANGED <<respVars, inbox, notifications, notified, mobileVars, envVars, cutVars, retryCount,
                   pollers>>

\* one pass of the loop of writeDataInChunks for a polled value; a failed write lands
\* in the catch, whose onError makes the caller remove the subscription
PollWriteFragment(h, ok) ==
    /\ h \in 1..Len(pollHandlers)
    /\ pollHandlers[h].pc = "writing"
    /\ LET chunks == chunksOf(markedJwtToken(pollHandlers[h].jwtToken))
           i == pollHandlers[h].next
       IN IF ok
          THEN /\ inbox' = Written(Initiator, chunks[i])
               /\ fragmentsWritten' = fragmentsWritten + 1
               /\ pollHandlers' = IF i < Len(chunks)
                                  THEN [pollHandlers EXCEPT ![h].next = i + 1]
                                  ELSE [pollHandlers EXCEPT ![h].pc = "settle"]
               /\ UNCHANGED <<mobileErrors, subscribed>>
          ELSE /\ pollHandlers' = [pollHandlers EXCEPT ![h].pc = "failed"]
               /\ mobileErrors' = Append(mobileErrors, "token handling failed")
               /\ subscribed' = FALSE
               /\ UNCHANGED <<inbox, fragmentsWritten>>
    /\ UNCHANGED <<respVars, notifications, notified, connectionCode, clock, regPc, isCompleted, handlers,
                   mobileCompleted, envVars, cutVars, retryCount, pollers>>

\* after the 500 ms settle of the poll path: onComplete, whose caller removes the
\* subscription
PollSettle(h) ==
    /\ h \in 1..Len(pollHandlers)
    /\ pollHandlers[h].pc = "settle"
    /\ pollHandlers' = [pollHandlers EXCEPT ![h].pc = "done"]
    /\ mobileCompleted' = Append(mobileCompleted, [serialNumber |-> pollHandlers[h].data,
                                                   jwtToken |-> pollHandlers[h].jwtToken])
    /\ subscribed' = FALSE
    /\ UNCHANGED <<respVars, inbox, notifications, notified, connectionCode, clock, regPc, isCompleted,
                   handlers, mobileErrors, fragmentsWritten, envVars, cutVars, retryCount,
                   pollers>>

\* the initiator on iOS: notifications, subscription errors and polling in any order
NextPoll ==
    \/ \E ok \in BOOLEAN : WriteCode(ok)
    \/ \E data \in LinkPayloads : InjectNotification(data, MaxRecovered)
    \/ DeliverNotification
    \/ \E h \in 1..Len(handlers) : IssuerReturn(h)
    \/ \E h \in 1..Len(handlers), ok \in BOOLEAN : WriteFragment(h, ok)
    \/ \E h \in 1..Len(handlers) : Settle(h)
    \/ MonitorError
    \/ NotifyFailed
    \/ \E p \in 1..Len(pollers) : PollTick(p)
    \/ \E p \in 1..Len(pollers), data \in ReadValues : PollReadReturn(p, data)
    \/ \E h \in 1..Len(pollHandlers) : PollIssuerReturn(h)
    \/ \E h \in 1..Len(pollHandlers), ok \in BOOLEAN : PollWriteFragment(h, ok)
    \/ \E h \in 1..Len(pollHandlers) : PollSettle(h)

SpecPoll == InitMobile /\ [][NextPoll]_vars

\* ------------------------------------- the poller against the responder
\* the sendData field of BluetoothClientModule: it is created empty, and nothing in
\* the repository calls setSendData
sendData == <<>>

\* onCharacteristicReadRequest: whatever value the characteristic holds, a read at
\* offset 0 sets it to sendData and answers with that
onCharacteristicReadRequest(offset) ==
    IF offset # 0 THEN <<"h", "i">> ELSE sendData

\* the pending read of a poller is answered by the responder's adapter
PollReadFromTablet(p) == PollReadReturn(p, onCharacteristicReadRequest(0))

\* the initiator on iOS against the responder: the subscription keeps failing, so no
\* notification is delivered, and the poller reads the responder's characteristic
NextPollTablet ==
    \/ \E ok \in BOOLEAN : WriteCode(ok)
    \/ TabletReceive
    \/ \E r \in 1..Len(requests) : ConfirmTimeout(r)
    \/ \E r \in 1..Len(requests) : PressCancel(r)
    \/ \E r \in 1..Len(requests), ok \in BOOLEAN : PressConfirm(r, ok)
    \/ NotifyFailed
    \/ \E p \in 1..Len(pollers) : PollTick(p)
    \/ \E p \in 1..Len(pollers) : PollReadFromTablet(p)

SpecPollTablet == Init /\ [][NextPollTablet]_vars

\* ------------------------------------------------- the peripheral adapter
BLE_SERVICE_UUID == "550e8400"
CODE_VERIFY == "550e8401"

\* BluetoothClientModule.removeAllServices: with no GATT server the first use of
\* mGattServer throws, the promise is rejected and servicesMap is left as it was
removeAllServicesOk == mGattServer
ServicesAfterRemove == IF removeAllServicesOk THEN EmptyMap ELSE servicesMap

\* BluetoothClientModule.addService: a new service unless the map holds the uuid
ServicesAfterAdd(m, uuid) == IF MapHas(m, uuid) THEN m ELSE MapSet(m, uuid, <<>>)

\* BluetoothClientModule.addCharacteristicToService: appended to the service found
ServicesAfterAddCharacteristic(m, serviceUUID, uuid) ==
    IF MapHas(m, serviceUUID) THEN MapSet(m, serviceUUID, Append(m[serviceUUID], uuid))
    ELSE m

\* setupPeripheralService: removeAllServices (a rejection is swallowed), addService,
\* addCharacteristicToService
SetupPeripheralServiceCall ==
    /\ adapterCalls < MaxAdapterCalls
    /\ adapterCalls' = adapterCalls + 1
    /\ servicesMap' = ServicesAfterAddCharacteristic(
                          ServicesAfterAdd(ServicesAfterRemove, BLE_SERVICE_UUID),
                          BLE_SERVICE_UUID, CODE_VERIFY)
    /\ gattServices' = IF removeAllServicesOk THEN <<>> ELSE gattServices
    /\ UNCHANGED <<mBluetoothLeAdvertiser, mAdvertiseCallback, mGattServer, advertising,
                   startResult, stopResult, mBluetoothDevices>>

\* everything but the adapter
notAdapterVars == <<deviceDataChunks, deviceConnectionCodes, serialNumber, hookRegistered,
                    callbackThrows, screenVars, tabletStatus, tabletCompleted, requests,
                    identitySends, sessionCompletions, connectedDevices, inbox, notifications, notified,
                    mobileVars, auxVars, pureVars, scanVars>>

\* setupPeripheralService called on its own
SetupPeripheralService ==
    /\ SetupPeripheralServiceCall
    /\ UNCHANGED notAdapterVars

\* the services of servicesMap.values() in the order they are added to a new server
ServicesOf(m) == IF MapHas(m, BLE_SERVICE_UUID) THEN <<m[BLE_SERVICE_UUID]>> ELSE <<>>

\* what the platform answers to BluetoothClientModule.startAdvertising
StartOutcomes == {"denied", "unsupported", "started", "failed"}

\* startAdvertising of bleManager (setName, then BluetoothClientModule.startAdvertising)
StartAdvertisingCall(outcome) ==
    /\ adapterCalls < MaxAdapterCalls
    /\ adapterCalls' = adapterCalls + 1
    /\ stopResult' = "none"
    /\ IF ~mBluetoothLeAdvertiser
       THEN IF outcome \in {"denied", "unsupported"}
            THEN /\ startResult' = "rejected"
                 /\ UNCHANGED <<mBluetoothLeAdvertiser, mAdvertiseCallback, mGattServer,
                                gattServices, advertising, mBluetoothDevices>>
            ELSE /\ mBluetoothDevices' = {}
                 /\ mGattServer' = TRUE
                 /\ gattServices' = ServicesOf(servicesMap)
                 /\ mBluetoothLeAdvertiser' = TRUE
                 /\ IF ~mAdvertiseCallback
                    THEN /\ mAdvertiseCallback' = TRUE
                         /\ advertising' = (outcome = "started")
                         /\ startResult' = IF outcome = "started" THEN "resolved"
                                           ELSE "rejected"
                    ELSE /\ startResult' = "pending"
                         /\ UNCHANGED <<mAdvertiseCallback, advertising>>
       ELSE IF ~mAdvertiseCallback
            THEN /\ mAdvertiseCallback' = TRUE
                 /\ advertising' = (outcome = "started")
                 /\ startResult' = "resolved"
                 /\ UNCHANGED <<mBluetoothLeAdvertiser, mGattServer, gattServices,
                                mBluetoothDevices>>
            ELSE /\ startResult' = "pending"
                 /\ UNCHANGED <<mBluetoothLeAdvertiser, mAdvertiseCallback, mGattServer,
                                gattServices, advertising, mBluetoothDevices>>
    /\ UNCHANGED servicesMap

\* startAdvertising called on its own
StartAdvertising(outcome) ==
    /\ StartAdvertisingCall(outcome)
    /\ UNCHANGED notAdapterVars

\* stopAdvertising of bleManager awaiting BluetoothClientModule.stopAdvertising, which
\* settles its promise only inside "if (mBluetoothLeAdvertiser != null)"
StopAdvertisingCall ==
    /\ adapterCalls < MaxAdapterCalls
    /\ adapterCalls' = adapterCalls + 1
    /\ IF mBluetoothLeAdvertiser
       THEN /\ advertising' = FALSE
            /\ mAdvertiseCallback' = FALSE
            /\ mBluetoothLeAdvertiser' = FALSE
            /\ stopResult' = "resolved"
       ELSE /\ stopResult' = "pending"
            /\ UNCHANGED <<advertising, mAdvertiseCallback, mBluetoothLeAdvertiser>>
    /\ UNCHANGED <<mGattServer, servicesMap, gattServices, startResult, mBluetoothDevices>>

\* stopAdvertising called on its own
StopAdvertising ==
    /\ StopAdvertisingCall
    /\ UNCHANGED notAdapterVars

\* the screen has not attached its data listener: only the adapter moves
InitAdapter ==
    /\ Constructed
    /\ NoCall
    /\ TabletAbsent
    /\ cutPayload = <<>>
    /\ cutRest = <<>>

NextAdapter ==
    \/ SetupPeripheralService
    \/ \E outcome \in StartOutcomes : StartAdvertising(outcome)
    \/ StopAdvertising

SpecAdapter == InitAdapter /\ [][NextAdapter]_vars

\* ------------------------------------------- the tablet screen's lifecycle
\* everything but the adapter and the screen
notScreenVars == <<deviceDataChunks, deviceConnectionCodes, serialNumber, hookRegistered,
                   callbackThrows, tabletStatus, tabletCompleted, requests, identitySends,
                   sessionCompletions, connectedDevices, inbox, notifications, notified, mobileVars,
                   auxVars, pureVars, scanVars>>

\* initializeBLE: requestPermissions returns; without permissions it alerts and returns
InitPermissions(hasPermissions) ==
    /\ initPc = "permissions"
    /\ initPc' = IF hasPermissions THEN "checking" ELSE "stopped"
    /\ UNCHANGED <<screenMounted, listeners, cleanupListenerCurrent, isAdvertising, adapterVars,
                   notScreenVars>>

\* initializeBLE: checkBluetoothClient returns; not ready throws into the catch
InitCheck(isBluetoothReady) ==
    /\ initPc = "checking"
    /\ initPc' = IF isBluetoothReady THEN "setup" ELSE "failed"
    /\ UNCHANGED <<screenMounted, listeners, cleanupListenerCurrent, isAdvertising, adapterVars,
                   notScreenVars>>

\* initializePeripheralMode: setupPeripheralService returns
InitSetup ==
    /\ initPc = "setup"
    /\ SetupPeripheralServiceCall
    /\ initPc' = "listening"
    /\ UNCHANGED <<screenMounted, listeners, cleanupListenerCurrent, isAdvertising,
                   notScreenVars>>

\* initializePeripheralMode: setupDataListener adds the listener, and startAdvertising
\* is left awaiting setName
InitListen ==
    /\ initPc = "listening"
    /\ listeners' = listeners + 1
    /\ initPc' = "starting"
    /\ UNCHANGED <<screenMounted, cleanupListenerCurrent, isAdvertising, adapterVars,
                   notScreenVars>>

\* initializePeripheralMode: BluetoothClient.startAdvertising runs; when it resolves the
\* cleanup function is stored in cleanupListener.current, when it rejects initializeBLE
\* lands in its catch without it
InitStart(outcome) ==
    /\ initPc = "starting"
    /\ StartAdvertisingCall(outcome)
    /\ initPc' = CASE startResult' = "resolved" -> "ready"
                   [] startResult' = "rejected" -> "failed"
                   [] OTHER -> "hung"
    /\ cleanupListenerCurrent' = (cleanupListenerCurrent \/ startResult' = "resolved")
    /\ isAdvertising' = (isAdvertising \/ startResult' = "resolved")
    /\ UNCHANGED <<screenMounted, listeners, notScreenVars>>

\* the retry button of the alert of the catch arms a one second timer
InitRetryPress ==
    /\ initPc = "failed"
    /\ screenMounted
    /\ initPc' = "retrying"
    /\ UNCHANGED <<screenMounted, listeners, cleanupListenerCurrent, isAdvertising, adapterVars,
                   notScreenVars>>

\* the timer fires, mounted or not: initializeBLE again
InitRetry ==
    /\ initPc = "retrying"
    /\ initPc' = "permissions"
    /\ UNCHANGED <<screenMounted, listeners, cleanupListenerCurrent, isAdvertising, adapterVars,
                   notScreenVars>>

\* the cleanup of the effect: cleanupListener.current() if it is set, then
\* stopAdvertising() whose promise is not awaited
Unmount ==
    /\ screenMounted
    /\ screenMounted' = FALSE
    /\ listeners' = IF cleanupListenerCurrent THEN listeners - 1 ELSE listeners
    /\ StopAdvertisingCall
    /\ UNCHANGED <<initPc, cleanupListenerCurrent, isAdvertising, notScreenVars>>

\* the screen is opened again after an initialization that has ended: a new component
\* with a fresh ref and fresh state over the same native module
Mount ==
    /\ ~screenMounted
    /\ initPc \in {"ready", "failed", "stopped", "hung"}
    /\ screenMounted' = TRUE
    /\ initPc' = "permissions"
    /\ cleanupListenerCurrent' = FALSE
    /\ isAdvertising' = FALSE
    /\ UNCHANGED <<listeners, adapterVars, notScreenVars>>

\* handleStopAdvertising, behind the button shown while isAdvertising: the state is
\* updated when the awaited stopAdvertising returns
HandleStopAdvertising ==
    /\ screenMounted
    /\ isAdvertising
    /\ StopAdvertisingCall
    /\ isAdvertising' = (stopResult' # "resolved")
    /\ UNCHANGED <<screenMounted, initPc, listeners, cleanupListenerCurrent, notScreenVars>>

NextScreen ==
    \/ \E hasPermissions \in BOOLEAN : InitPermissions(hasPermissions)
    \/ \E isBluetoothReady \in BOOLEAN : InitCheck(isBluetoothReady)
    \/ InitSetup
    \/ InitListen
    \/ \E outcome \in StartOutcomes : InitStart(outcome)
    \/ InitRetryPress
    \/ InitRetry
    \/ Unmount
    \/ Mount
    \/ HandleStopAdvertising

SpecScreen == InitAdapter /\ [][NextScreen]_vars

\* ------------------------------------------- the scan of the initiator screen
\* how many scans are started in all
MaxScans == 3

notScanVars == <<deviceDataChunks, deviceConnectionCodes, serialNumber, hookRegistered,
                 callbackThrows, adapterVars, screenVars, pureVars, tabletStatus,
                 tabletCompleted, requests, identitySends, sessionCompletions, connectedDevices,
                 inbox, notifications, notified, mobileVars, auxVars>>

\* performScan(retry) up to its await: the closure it runs in saw the isScanning
\* of the render that created it
PerformScan(saw, retry) ==
    IF saw
    THEN UNCHANGED scanVars
    ELSE /\ isScanning' = TRUE
         /\ scanPc' = "permissions"
         /\ scanSaw' = saw
         /\ scanRetryCount' = retry
         /\ scans' = scans + 1
         /\ manuallyStopped' = FALSE
         /\ UNCHANGED <<scanActive, scanTimers>>

\* startScan, behind the button shown while isScanning is false
StartScan ==
    /\ ~isScanning
    /\ scanPc = "idle"
    /\ scans < MaxScans
    /\ PerformScan(isScanning, 0)
    /\ UNCHANGED <<retryArmed, notScanVars>>

\* requestPermissions returns to performScan: without permissions it gives up, with
\* them it starts the scan and sets the 10 s timer, whose callback tests the isScanning
\* of the closure
ScanPermissions(hasPermissions) ==
    /\ scanPc = "permissions"
    /\ scanPc' = "idle"
    /\ IF hasPermissions
       THEN /\ scanActive' = TRUE
            /\ scanTimers' = Append(scanTimers, [scan |-> scans, saw |-> scanSaw,
                                                 fired |-> FALSE])
            /\ UNCHANGED isScanning
       ELSE /\ isScanning' = FALSE
            /\ UNCHANGED <<scanActive, scanTimers>>
    /\ UNCHANGED <<scanSaw, scanRetryCount, retryArmed, scans, manuallyStopped, notScanVars>>

\* handleStopScan
HandleStopScanCall ==
    /\ scanActive' = FALSE
    /\ isScanning' = FALSE
    /\ manuallyStopped' = TRUE

\* the stop button, shown while isScanning is true
HandleStopScan ==
    /\ isScanning
    /\ HandleStopScanCall
    /\ UNCHANGED <<scanPc, scanSaw, scanRetryCount, scanTimers, retryArmed, scans, notScanVars>>

\* a 10 s timer fires: if (isScanning) handleStopScan()
ScanTimerFires(t) ==
    /\ t \in 1..Len(scanTimers)
    /\ ~scanTimers[t].fired
    /\ scanTimers' = [scanTimers EXCEPT ![t].fired = TRUE]
    /\ IF scanTimers[t].saw
       THEN HandleStopScanCall
       ELSE UNCHANGED <<scanActive, isScanning, manuallyStopped>>
    /\ UNCHANGED <<scanPc, scanSaw, scanRetryCount, retryArmed, scans, notScanVars>>

\* the error callback of scanForDevices: the scan has ended; the first failure arms
\* the retry timer
ScanError ==
    /\ scanActive
    /\ scanActive' = FALSE
    /\ isScanning' = FALSE
    /\ retryArmed' = (retryArmed \/ scanRetryCount = 0)
    /\ UNCHANGED <<scanPc, scanSaw, scanRetryCount, scanTimers, scans, manuallyStopped,
                   notScanVars>>

\* the retry timer fires: performScan(1) of the closure that armed it
ScanRetryFires ==
    /\ retryArmed
    /\ scanPc = "idle"
    /\ scans < MaxScans
    /\ retryArmed' = FALSE
    /\ PerformScan(scanSaw, 1)
    /\ UNCHANGED notScanVars

NextScan ==
    \/ StartScan
    \/ \E hasPermissions \in BOOLEAN : ScanPermissions(hasPermissions)
    \/ HandleStopScan
    \/ \E t \in 1..Len(scanTimers) : ScanTimerFires(t)
    \/ ScanError
    \/ ScanRetryFires

SpecScan == InitMobile /\ [][NextScan]_vars

\* ------------------------------------------------------ the pure functions
\* the longest string a pure function is called with
MaxArgLen == 7
\* characters inside and outside the class [A-Z0-9]
ArgChars == {"A", "9", "a", "-"}
Args == UNION {[1..n -> ArgChars] : n \in 0..MaxArgLen}

\* some caller holds a string and nothing else has happened
InitPure ==
    /\ Constructed
    /\ TabletAbsent
    /\ cutPayload = <<>>
    /\ cutRest = <<>>
    /\ arg \in Args
    /\ fn = "none"
    /\ out = <<>>

notPureVars == <<deviceDataChunks, deviceConnectionCodes, serialNumber, hookRegistered,
                 callbackThrows, adapterVars, screenVars, tabletStatus, tabletCompleted,
                 requests, identitySends, sessionCompletions, connectedDevices, inbox,
                 notifications, notified, mobileVars, auxVars, scanVars>>

\* getDataType(arg) and validateConnectionCode(arg) are evaluated
Classify ==
    /\ fn = "none"
    /\ fn' = "classify"
    /\ out' = <<getDataType(arg), IF validateConnectionCode(arg) THEN "true" ELSE "false">>
    /\ UNCHANGED <<arg, notPureVars>>

NextClassify == Classify

SpecClassify == InitPure /\ [][NextClassify]_vars

\* the three conditions getDataType tests, each on its own
isConnectionCode(data) == Len(data) = CONNECTION_CODE_LENGTH /\ matchesCodePattern(data)

\* an identity test whose prefixes would lack the dash
isSerialNumberWithoutDash(data) ==
    \/ startsWith(data, SubSeq(PREFIX_TAB, 1, 3))
    \/ startsWith(data, SubSeq(PREFIX_IOT, 1, 3))
    \/ startsWith(data, SubSeq(PREFIX_TABLET, 1, 6))

isSerialNumber(data) ==
    \/ startsWith(data, PREFIX_TAB)
    \/ startsWith(data, PREFIX_IOT)
    \/ startsWith(data, PREFIX_TABLET)

isJwtToken(data) == startsWith(data, PREFIX_JWT) /\ dotCount(data) >= 2

\* the longest tail behind the head of a string that is classified
MaxTailLen == 4
\* heads that are a prefix getDataType looks for, or just miss one
ShapeHeads ==
    {<<>>, PREFIX_TAB, PREFIX_IOT, PREFIX_TABLET, PREFIX_JWT,
     SubSeq(PREFIX_TAB, 1, 3), SubSeq(PREFIX_TABLET, 1, 6), PREFIX_JWT \o <<".">>}
ShapeTailChars == {"A", "9", ".", "-"}
ShapedArgs ==
    {head \o tail : head \in ShapeHeads,
                    tail \in UNION {[1..n -> ShapeTailChars] : n \in 0..MaxTailLen}}

\* the orders in which the three tests can be made
DataTypes == {"connectionCode", "serialNumber", "jwtToken"}
CheckOrders == {order \in [1..3 -> DataTypes] : \A a, b \in 1..3 : order[a] = order[b] => a = b}

\* whether the test for a class holds of the string
Holds(dataType, data) ==
    CASE dataType = "connectionCode" -> isConnectionCode(data)
      [] dataType = "serialNumber" -> isSerialNumber(data)
      [] dataType = "jwtToken" -> isJwtToken(data)

\* the class of the first test of the order that holds, 'unknown' when none does
getDataTypeInOrder(order, data) ==
    IF Holds(order[1], data) THEN order[1]
    ELSE IF Holds(order[2], data) THEN order[2]
    ELSE IF Holds(order[3], data) THEN order[3]
    ELSE "unknown"

InitShaped ==
    /\ Constructed
    /\ TabletAbsent
    /\ cutPayload = <<>>
    /\ cutRest = <<>>
    /\ arg \in ShapedArgs
    /\ fn = "none"
    /\ out = <<>>

\* getDataType(arg) is evaluated, and so are its tests made in some order
ClassifyInOrder(order) ==
    /\ fn = "none"
    /\ fn' = "ordered"
    /\ out' = [order |-> order, dataType |-> getDataType(arg),
               inOrder |-> getDataTypeInOrder(order, arg),
               holding |-> {dataType \in DataTypes : Holds(dataType, arg)}]
    /\ UNCHANGED <<arg, notPureVars>>

NextShaped == \E order \in CheckOrders : ClassifyInOrder(order)

SpecShaped == InitShaped /\ [][NextShaped]_vars

\* ------------------------------------------- the chunked write of a message
\* the longest message handed to writeDataInChunks
MaxMessageLen == 38
MessageChars == <<"S", "e", "y", "J", ".">>
\* one message of every length, its characters in a pattern no chunk size repeats
Messages ==
    {[i \in 1..n |-> MessageChars[((i - 1) % Len(MessageChars)) + 1]] : n \in 0..MaxMessageLen}

\* message.slice(from, to) for 0 <= from <= to
slice(message, from, to) ==
    SubSeq(message, from + 1, IF to > Len(message) THEN Len(message) ELSE to)

\* writeDataInChunks is about to be called with a message
InitChunks ==
    /\ Constructed
    /\ TabletAbsent
    /\ cutPayload = <<>>
    /\ cutRest = <<>>
    /\ arg \in Messages
    /\ fn = "none"
    /\ out = [i |-> 0, chunks |-> <<>>, writes |-> <<>>, confirmed |-> 0]

\* a slicing loop that would take one character more than it advances by
SliceMessageOverlapping ==
    /\ fn \in {"none", "slicing"}
    /\ IF out.i < Len(arg)
       THEN /\ fn' = "slicing"
            /\ out' = [out EXCEPT
                          !.chunks = Append(@, slice(arg, out.i, out.i + BLE_CHUNK_DATA_SIZE + 1)),
                          !.i = @ + BLE_CHUNK_DATA_SIZE]
       ELSE /\ fn' = "loop"
            /\ UNCHANGED out
    /\ UNCHANGED <<arg, notPureVars>>

\* one pass of the loop that cuts the message into chunks, or its exit
SliceMessage ==
    /\ fn \in {"none", "slicing"}
    /\ IF out.i < Len(arg)
       THEN /\ fn' = "slicing"
            /\ out' = [out EXCEPT
                          !.chunks = Append(@, slice(arg, out.i, out.i + BLE_CHUNK_DATA_SIZE)),
                          !.i = @ + BLE_CHUNK_DATA_SIZE]
       ELSE /\ fn' = "loop"
            /\ UNCHANGED out
    /\ UNCHANGED <<arg, notPureVars>>

\* the head of the loop over the chunks: the next chunk is encoded and its write is
\* issued, or the loop is over and the call resolves
IssueWrite ==
    /\ fn = "loop"
    /\ IF out.confirmed < Len(out.chunks)
       THEN /\ fn' = "awaiting"
            /\ out' = [out EXCEPT !.writes = Append(@, utf8Bytes(out.chunks[out.confirmed + 1]))]
       ELSE /\ fn' = "resolved"
            /\ UNCHANGED out
    /\ UNCHANGED <<arg, notPureVars>>

\* the awaited write is confirmed, and after the delay the loop goes on; or it fails,
\* and the call rejects with its error
ConfirmWrite(ok) ==
    /\ fn = "awaiting"
    /\ IF ok
       THEN /\ fn' = "loop"
            /\ out' = [out EXCEPT !.confirmed = @ + 1]
       ELSE /\ fn' = "rejected"
            /\ UNCHANGED out
    /\ UNCHANGED <<arg, notPureVars>>

NextChunks ==
    \/ SliceMessage
    \/ IssueWrite
    \/ \E ok \in BOOLEAN : ConfirmWrite(ok)

SpecChunks == InitChunks /\ [][NextChunks]_vars

\* ------------------------------------------- the indexed fragmentation
\* a header byte
ByteValues == 256
\* the header of a fragment: its index and the number of fragments, one byte each
HEADER_SIZE == 2

\* fragment(payload, maxChunk): ceil(len / maxChunk) pieces, each behind its header
fragment(payload, maxChunk) ==
    LET total == (Len(payload) + maxChunk - 1) \div maxChunk
    IN [i \in 1..total |->
           <<(i - 1) % ByteValues, total % ByteValues>>
               \o utf8Bytes(substring(payload, (i - 1) * maxChunk, i * maxChunk))]

\* a stable sort by the index byte: a fragment comes after those of a smaller index
\* and after those of the same index presented before it
SortByIndex(fragments) ==
    LET n == Len(fragments)
        rank == [i \in 1..n |->
                    1 + Cardinality({j \in 1..n :
                            \/ fragments[j][1] < fragments[i][1]
                            \/ fragments[j][1] = fragments[i][1] /\ j < i})]
    IN [r \in 1..n |-> fragments[CHOOSE i \in 1..n : rank[i] = r]]

\* the fragments without their headers, concatenated (halving keeps the recursion flat)
RECURSIVE ConcatBodies(_)
ConcatBodies(fragments) ==
    IF fragments = <<>> THEN <<>>
    ELSE IF Len(fragments) = 1
         THEN SubSeq(fragments[1], HEADER_SIZE + 1, Len(fragments[1]))
    ELSE LET half == Len(fragments) \div 2
         IN ConcatBodies(SubSeq(fragments, 1, half))
                \o ConcatBodies(SubSeq(fragments, half + 1, Len(fragments)))

\* a reassembly that would concatenate the fragments as presented
reassembleUnsorted(fragments) ==
    IF \E i \in 1..Len(fragments) : Len(fragments[i]) < HEADER_SIZE THEN <<"failure">>
    ELSE fromCharCodes(ConcatBodies(fragments))

\* reassemble(fragments): fails on a fragment shorter than the header, else sorts by
\* index, strips the headers and concatenates
reassemble(fragments) ==
    IF \E i \in 1..Len(fragments) : Len(fragments[i]) < HEADER_SIZE THEN <<"failure">>
    ELSE fromCharCodes(ConcatBodies(SortByIndex(fragments)))

\* the longest payload whose fragments are presented in every order, the largest
\* chunk size, and the length of the one long payload
MaxFragArgLen == 4
MaxChunkSize == 3
LongLen == 257
FragChars == {"a", "b"}
LongPayload == [i \in 1..LongLen |-> IF i = LongLen THEN "b" ELSE "a"]
FragArgs == UNION {[1..n -> FragChars] : n \in 0..MaxFragArgLen} \cup {LongPayload}

\* the orders in which n fragments are presented: every order of a few fragments,
\* the order sent and its reverse of many
Orders(n) ==
    IF n <= MaxFragArgLen
    THEN {f \in [1..n -> 1..n] : \A i, j \in 1..n : f[i] = f[j] => i = j}
    ELSE {[i \in 1..n |-> i], [i \in 1..n |-> n + 1 - i]}

InitFragment ==
    /\ Constructed
    /\ TabletAbsent
    /\ cutPayload = <<>>
    /\ cutRest = <<>>
    /\ arg \in FragArgs
    /\ fn = "none"
    /\ out = <<>>

\* the payload is fragmented with chunk size k, and its fragments are reassembled
\* after being presented in some order
RoundTrip(k, order) ==
    /\ fn = "none"
    /\ fn' = "roundtrip"
    /\ LET fragments == fragment(arg, k)
       IN out' = [k |-> k, count |-> Len(fragments), order |-> order,
                  result |-> reassemble([i \in 1..Len(fragments) |-> fragments[order[i]]])]
    /\ UNCHANGED <<arg, notPureVars>>

NextFragment ==
    \E k \in 1..MaxChunkSize :
        \E order \in Orders((Len(arg) + k - 1) \div k) : RoundTrip(k, order)

SpecFragment == InitFragment /\ [][NextFragment]_vars

\* ------------------------------------------------------------------ claims
\* the credential the issuer returns for the responder's serial number
IssuedCredential == generateJwtToken(serialNumber, clock)

\* the initiator ran to its completion callback with no error reported, and every write
\* it made was handled by the responder
HappyRunEnded ==
    /\ regPc = "monitoring"
    /\ mobileErrors = <<>>
    /\ Len(handlers) = 1
    /\ handlers[1].pc = "done"
    /\ inbox = <<>>

C3_CompletionFollowsHandshake ==
    \A k \in 1..Len(tabletCompleted) :
        /\ tabletCompleted[k].connectionCode # <<>>
        /\ \E i \in 1..Len(identitySends) :
              /\ identitySends[i].ok
              /\ identitySends[i].deviceId = tabletCompleted[k].deviceId
              /\ identitySends[i].code = tabletCompleted[k].connectionCode

\* C4: between two accepted codes of a device, the responder's completion callback is
\* invoked at most once for that device, whatever is delivered again.
C4_OneCompletionPerSession ==
    \A deviceId \in Peers : sessionCompletions[deviceId] <= 1

\* the step in which the responder handles a write that is not a well-formed code
HandlesNonCode ==
    /\ inbox # <<>>
    /\ inbox' = Tail(inbox)
    /\ ~validateConnectionCode(fromCharCodes(Head(inbox).data))

\* m2 holds no entry that m1 does not hold with the same value
NothingCreatedOrOverwritten(m1, m2) ==
    \A k \in DOMAIN m2 : k \in DOMAIN m1 /\ m2[k] = m1[k]

C6_NoIdentityAfterTimeout ==
    \A i \in 1..Len(identitySends) :
        (identitySends[i].request # 0 /\ identitySends[i].ok)
            => requests[identitySends[i].request].timer # "fired"

\* the whole stream of the payload was delivered
CutDelivered == cutPayload # <<>> /\ cutRest = <<>>

\* C2: however the stream START+p+END is cut into fragments, the responder completes
\* exactly once, on the last fragment and not earlier, and reports p as the credential.
C2_EveryCutReassembles ==
    /\ (cutPayload # <<>> /\ cutRest # <<>>) => tabletCompleted = <<>>
    /\ CutDelivered =>
          /\ Len(tabletCompleted) = 1
          /\ tabletCompleted[1].jwtToken = cutPayload

\* how many times the initiator started to process the value v (issuer call, transfer,
\* completion), from a notification or from a poll read
TimesProcessed(v) ==
    Cardinality({h \in 1..Len(handlers) : handlers[h].data = v})
        + Cardinality({h \in 1..Len(pollHandlers) : pollHandlers[h].data = v})

\* C7: a value found by a poll read is processed exactly once: neither a second poll
\* read nor a notification makes the initiator call the issuer, transfer the
\* credential or complete for it again.
C7_PolledValueProcessedOnce ==
    \A h \in 1..Len(pollHandlers) :
        /\ TimesProcessed(pollHandlers[h].data) = 1
        /\ Len(mobileCompleted) <= 1

\* the write of some fragment of a credential transfer has failed
WriteFailed == \E h \in 1..Len(handlers) : handlers[h].pc = "failed"

\* C8: once the write of a fragment has failed, the error callback has been invoked and
\* the subscription is removed, and from then on no fragment is written and the
\* completion callback is not invoked.
C8_FailedWriteStopsTransfer ==
    [][WriteFailed =>
          /\ mobileErrors # <<>>
          /\ ~subscribed
          /\ fragmentsWritten' = fragmentsWritten
          /\ mobileCompleted' = mobileCompleted]_vars

\* C9: the error callback of one startIoTRegistration call is invoked at most once.
C9_ErrorCallbackOnce == Len(mobileErrors) <= 1

\* C10: once the error callback has been invoked, the completion callback is not
\* invoked and no fragment is written.
C10_ErroredIsTerminal ==
    [][mobileErrors # <<>> =>
          /\ mobileCompleted' = mobileCompleted
          /\ fragmentsWritten' = fragmentsWritten]_vars

\* the credential transfer of the registration ended: all fragments are written
RegistrationComplete ==
    \E h \in 1..Len(handlers) : handlers[h].pc \in {"settle", "done"}

\* the two notifications of the link were Identity payloads
TwoIdentitiesInjected ==
    /\ Len(injected) = 2
    /\ \A i \in 1..2 : getDataType(injected[i]) = "serialNumber"

\* C11: once all fragments of the registration are written, no notification starts
\* another processing: the step that delivers one calls no issuer, writes nothing and
\* invokes no callback.
C11_CompleteIgnoresIdentity ==
    [][RegistrationComplete =>
          /\ Len(handlers') = Len(handlers)
          /\ (notifications # <<>> /\ notifications' = Tail(notifications))
                => UNCHANGED <<handlers, inbox, fragmentsWritten, mobileCompleted,
                               mobileErrors>>]_vars

\* a second Identity notification was delivered after the only transfer had ended,
\* and it started nothing
C11_Witness ==
    /\ TwoIdentitiesInjected
    /\ notifications = <<>>
    /\ Len(handlers) = 1
    /\ handlers[1].pc = "done"
    /\ Len(mobileCompleted) = 1
    /\ mobileErrors = <<>>

\* the accumulator of the device holds the START marker, and the step drops it or
\* replaces it by something that does not continue it
AccumulatorDropped(deviceId) ==
    /\ MapHas(deviceDataChunks, deviceId)
    /\ includes(deviceDataChunks[deviceId], START_MARK)
    /\ ~(/\ MapHas(deviceDataChunks', deviceId)
         /\ startsWith(deviceDataChunks'[deviceId], deviceDataChunks[deviceId]))

\* the step handles a write of the device and completes for it
CompletesFor(deviceId) ==
    /\ inbox # <<>>
    /\ inbox' = Tail(inbox)
    /\ Head(inbox).device = deviceId
    /\ Len(tabletCompleted') = Len(tabletCompleted) + 1
    /\ tabletCompleted'[Len(tabletCompleted')].deviceId = deviceId

\* the step handles a write of the device that is a well-formed code
AcceptsCodeOf(deviceId) ==
    /\ inbox # <<>>
    /\ inbox' = Tail(inbox)
    /\ Head(inbox).device = deviceId
    /\ validateConnectionCode(fromCharCodes(Head(inbox).data))

\* C12: an accumulator that holds the START marker is emptied only by the reassembly
\* that completes for its device; no other message of that device and no message of
\* another device drops it.
C12_AccumulatorOnlyReassembled ==
    [][\A deviceId \in Peers :
          AccumulatorDropped(deviceId) =>
              /\ CompletesFor(deviceId)
              /\ getDataType(fromCharCodes(Head(inbox).data)) \notin {"connectionCode", "jwtToken"}]_vars

\* C12, amended: an accumulator that holds the START marker is emptied only by a
\* message of its own device, and only by one that completes for the device (by
\* reassembly or as a whole credential) or that is a well-formed code starting a new
\* session; no message of another device drops it.
C12_AccumulatorOwnDeviceOnly ==
    [][\A deviceId \in Peers :
          AccumulatorDropped(deviceId) => (CompletesFor(deviceId) \/ AcceptsCodeOf(deviceId))]_vars

\* a device sent 'STARTa.' and then 'STARTa.bEND': its accumulator held the START
\* marker and was emptied by the reassembly that followed
C12_Witness ==
    /\ peerWrites = 2
    /\ inbox = <<>>
    /\ deviceDataChunks = EmptyMap
    /\ deviceConnectionCodes = EmptyMap
    /\ Len(tabletCompleted) = 1
    /\ tabletCompleted[1].jwtToken = <<"a", ".">> \o START_MARK \o <<"a", ".", "b">>

ResetStep == connectedDevices # {} /\ connectedDevices' = {}

\* C14: a reset of the responder leaves no stored code and no accumulator of any
\* device.
C14_ResetClearsSessions ==
    [][ResetStep => (deviceDataChunks' = EmptyMap /\ deviceConnectionCodes' = EmptyMap)]_vars

\* the accumulator of the device holds one malformed payload and nothing else, and the
\* step handles the whole stream START a.b END written by the device
StreamAfterMalformed(deviceId) ==
    /\ MapHas(deviceDataChunks, deviceId)
    /\ deviceDataChunks[deviceId] \in {WrongShapeCode, StreamTail}
    /\ inbox # <<>>
    /\ inbox' = Tail(inbox)
    /\ Head(inbox).device = deviceId
    /\ fromCharCodes(Head(inbox).data) = WholeStream

\* C15: after one malformed payload of a device (for example one with END and no
\* START before it), a complete START+p+END stream of the device is still reassembled:
\* the responder completes with jwtToken = p.
C15_MalformedDoesNotAbort ==
    [][\A deviceId \in Peers :
          StreamAfterMalformed(deviceId) =>
              /\ CompletesFor(deviceId)
              /\ tabletCompleted'[Len(tabletCompleted')].jwtToken = <<"a", ".", "b">>]_vars

\* the step handles a write in which the completion callback is called and throws
CallbackThrew ==
    /\ callbackThrows
    /\ inbox # <<>>
    /\ inbox' = Tail(inbox)
    /\ Len(tabletCompleted') = Len(tabletCompleted) + 1

\* the step sends the serial number and the send fails
SendFailed ==
    /\ Len(identitySends') = Len(identitySends) + 1
    /\ ~identitySends'[Len(identitySends')].ok

\* C16: the handler never rejects: whatever write is the oldest unhandled one, it can be
\* handled; a step whose completion callback throws ends with the status "data
\* processing failed", and a step whose send of the serial number fails ends with the
\* status "serial number send failed".
C16_FailuresCaughtAndReported ==
    /\ [](inbox # <<>> => ENABLED TabletReceive)
    /\ [][/\ CallbackThrew => tabletStatus' = "data processing failed"
          /\ SendFailed => tabletStatus' = "serial number send failed"]_vars

\* a send of the serial number failed, then the completion callback threw twice: the
\* write after the first throw was handled too
C16_Witness ==
    /\ callbackThrows
    /\ inbox = <<>>
    /\ Len(identitySends) = 1
    /\ ~identitySends[1].ok
    /\ Len(tabletCompleted) = 2
    /\ tabletStatus = "data processing failed"

\* the step sends the serial number and reports the status "serial number sent"
SendReportedSent ==
    /\ Len(identitySends') = Len(identitySends) + 1
    /\ tabletStatus' = "serial number sent"

\* C17: a send of the serial number is reported as sent only if the step pushed the
\* value to a subscribed peer, and a send made while no peer is subscribed is reported
\* as failed.
C17_SentMeansPushed ==
    [][/\ SendReportedSent => (subscribed /\ Len(notifications') = Len(notifications) + 1)
       /\ (Len(identitySends') = Len(identitySends) + 1 /\ ~subscribed)
              => tabletStatus' = "serial number send failed"]_vars

\* C18: a call to stopAdvertising settles in every adapter state, and after it has
\* settled the adapter is not advertising.
C18_StopAlwaysSettles ==
    /\ stopResult # "pending"
    /\ stopResult = "resolved" => ~advertising

\* C19: whatever calls were made, the configured service exists at most once and, once
\* setupPeripheralService has configured it, holds exactly one CODE_VERIFY attribute.
C19_OneServiceOneAttribute ==
    /\ DOMAIN servicesMap \subseteq {BLE_SERVICE_UUID}
    /\ MapHas(servicesMap, BLE_SERVICE_UUID) => servicesMap[BLE_SERVICE_UUID] = <<CODE_VERIFY>>
    /\ Len(gattServices) <= 1

\* the step invokes a terminal callback of the initiator (onComplete or onError)
TerminalCallback ==
    \/ Len(mobileCompleted') = Len(mobileCompleted) + 1
    \/ Len(mobileErrors') = Len(mobileErrors) + 1

\* a poller whose interval has not been cleared
LivePoller(ps) == \E p \in 1..Len(ps) : ~ps[p].cleared

\* C20: when a terminal callback of the initiator has been invoked, the subscription
\* is removed, no restarted monitor (whose Subscription nobody holds) exists and no
\* poller is left running.
C20_ReleasedAtTerminalCallback ==
    [][TerminalCallback =>
          (~subscribed' /\ retryCount' = 0 /\ ~LivePoller(pollers'))]_vars

\* the same for the subscription handed to the caller and the poller alone
C20_TimerReleasedAtTerminalCallback ==
    [][TerminalCallback => (~subscribed' /\ ~LivePoller(pollers'))]_vars

\* C21: once the screen is unmounted the adapter is not advertising and no inbound-write
\* listener is registered.
C21_ShutdownReleases ==
    ~screenMounted => (~advertising /\ listeners = 0)

\* the string has length 6 and every character of it is a capital letter or a digit
SixCapitalsOrDigits(s) ==
    /\ Len(s) = 6
    /\ \A i \in 1..Len(s) : charCode(s[i]) \in (48..57) \cup (65..90)

\* C22: getDataType answers 'connectionCode' exactly for the strings of length 6 made
\* of capital letters and digits, and validateConnectionCode is true for exactly the
\* same strings.
C22_CodeClassification ==
    fn = "classify" =>
        /\ (out[1] = "connectionCode") <=> SixCapitalsOrDigits(arg)
        /\ (out[2] = "true") <=> SixCapitalsOrDigits(arg)

\* a string of six capitals and digits was classified as a code
C22_Witness ==
    /\ fn = "classify"
    /\ arg = <<"A", "9", "9", "A", "A", "9">>
    /\ out = <<"connectionCode", "true">>

\* C23: once the code write has failed and startIoTRegistration has rejected, the error
\* callback has been invoked exactly once, no subscription exists, nothing was written
\* to the responder, and no handler, completion or fragment write ever follows.
C23_FailedCodeWriteIsTerminal ==
    regPc = "rejected" =>
        /\ mobileErrors = <<"code write failed">>
        /\ ~subscribed
        /\ inbox = <<>>
        /\ tabletStatus = "waiting"
        /\ handlers = <<>>
        /\ mobileCompleted = <<>>
        /\ fragmentsWritten = 0

\* the code write failed with the responder attached
C23_Witness ==
    /\ tabletAttached
    /\ regPc = "rejected"
    /\ Len(mobileErrors) = 1

\* how many times the poll timeout was reported
PollTimeouts == Cardinality({e \in 1..Len(mobileErrors) : mobileErrors[e] = "poll timeout"})

\* C24: a poller issues at most 40 reads, and it ends in one outcome only: it processes
\* one new value or reports the timeout once, never both and never twice; once its
\* timer is cleared no read is issued.
C24_PollerEndsOnce ==
    /\ [](\A p \in 1..Len(pollers) : pollers[p].pollCount <= maxPolls + 1)
    /\ [](Len(pollHandlers) + PollTimeouts <= Len(pollers))
    /\ [][\A p \in 1..Len(pollers) :
             pollers[p].cleared => pollers'[p].reading <= pollers[p].reading]_vars

\* C25: when the 10 s timer of the latest scan has fired and the scan was not stopped
\* by hand, the adapter is not scanning and the scanning flag is cleared.
C25_ScanStopsAfterTenSeconds ==
    \A t \in 1..Len(scanTimers) :
        (scanTimers[t].fired /\ scanTimers[t].scan = scans /\ scanPc = "idle"
            /\ ~manuallyStopped)
        => (~scanActive /\ ~isScanning)

FragmentsOf(h) == chunksOf(markedJwtToken(handlers[h].jwtToken))

\* the step delivers a notification to the data callback
Delivers == notifications # <<>> /\ notifications' = Tail(notifications)

\* C27: the subscription starts only in the step in which the code write succeeds; the
\* issuer is called only in the step that delivers an Identity-classified payload, and
\* with exactly that payload; a fragment is written only for a handler whose issuer has
\* returned, and it is a fragment of START+credential+END; the completion callback is
\* invoked only for a handler all of whose fragments are written, with its identity and
\* credential; a delivered payload of any other class calls no issuer, writes nothing
\* and invokes no callback.
C27_InitiatorEventOrder ==
    /\ [](subscribed => regPc = "monitoring")
    /\ [][(~subscribed /\ subscribed') => (regPc = "idle" /\ regPc' = "monitoring")]_vars
    /\ [][Len(handlers') # Len(handlers) =>
             /\ Delivers
             /\ getDataType(fromCharCodes(Head(notifications))) = "serialNumber"
             /\ handlers' = Append(handlers, [data |-> fromCharCodes(Head(notifications)),
                                              pc |-> "issuing", jwtToken |-> <<>>,
                                              next |-> 0])]_vars
    /\ [](\A h \in 1..Len(handlers) :
             handlers[h].pc # "issuing" =>
                 handlers[h].jwtToken = generateJwtToken(handlers[h].data, clock))
    /\ [][fragmentsWritten' # fragmentsWritten =>
             /\ fragmentsWritten' = fragmentsWritten + 1
             /\ \E h \in 1..Len(handlers) :
                   /\ handlers[h].pc = "writing"
                   /\ handlers[h].jwtToken # <<>>
                   /\ handlers[h].next \in 1..Len(FragmentsOf(h))
                   /\ handlers'[h].pc \in {"writing", "settle"}
                   /\ handlers'[h].pc = "settle" <=> handlers[h].next = Len(FragmentsOf(h))
                   /\ handlers'[h].pc = "writing" => handlers'[h].next = handlers[h].next + 1]_vars
    /\ [][mobileCompleted' # mobileCompleted =>
             \E h \in 1..Len(handlers) :
                 /\ handlers[h].pc = "settle"
                 /\ handlers[h].next = Len(FragmentsOf(h))
                 /\ fragmentsWritten >= Len(FragmentsOf(h))
                 /\ mobileCompleted' = Append(mobileCompleted,
                                              [serialNumber |-> handlers[h].data,
                                               jwtToken |-> handlers[h].jwtToken])]_vars
    /\ [][(Delivers /\ getDataType(fromCharCodes(Head(notifications))) # "serialNumber") =>
             UNCHANGED <<handlers, inbox, fragmentsWritten, mobileCompleted,
                         mobileErrors>>]_vars

\* the code echoed back was delivered and started nothing, then an identity was
\* delivered and its registration ran to the completion callback
C27_Witness ==
    /\ Len(injected) = 2
    /\ getDataType(injected[1]) = "connectionCode"
    /\ getDataType(injected[2]) = "serialNumber"
    /\ notifications = <<>>
    /\ Len(handlers) = 1
    /\ handlers[1].pc = "done"
    /\ mobileCompleted = <<[serialNumber |-> injected[2],
                            jwtToken |-> generateJwtToken(injected[2], clock)]>>
    /\ fragmentsWritten = Len(FragmentsOf(1))
    /\ mobileErrors = <<>>

\* the values written so far, one after the other, decoded
RECURSIVE WrittenText(_)
WrittenText(writes) ==
    IF writes = <<>> THEN <<>>
    ELSE WrittenText(SubSeq(writes, 1, Len(writes) - 1)) \o fromCharCodes(writes[Len(writes)])

\* ceil(len(m) / 18)
ExpectedWrites == (Len(arg) + BLE_CHUNK_DATA_SIZE - 1) \div BLE_CHUNK_DATA_SIZE

\* C28: writeDataInChunks never has more than one write unconfirmed, every write
\* carries at most 18 characters, what was written so far is the beginning of the
\* message, and never more than ceil(len(m)/18) writes are issued; when the call
\* resolves exactly ceil(len(m)/18) writes were issued and confirmed and their
\* concatenation is the message; an empty message causes no write.
C28_ChunksPartitionMessage ==
    /\ Len(out.writes) \in {out.confirmed, out.confirmed + 1}
    /\ Len(out.writes) = out.confirmed + 1 <=> fn \in {"awaiting", "rejected"}
    /\ \A w \in 1..Len(out.writes) : Len(out.writes[w]) \in 1..BLE_CHUNK_DATA_SIZE
    /\ Len(out.writes) <= ExpectedWrites
    /\ WrittenText(out.writes) = SubSeq(arg, 1, Len(WrittenText(out.writes)))
    /\ fn \in {"loop", "awaiting", "resolved", "rejected"} => out.chunks = chunksOf(arg)
    /\ fn = "resolved" =>
          /\ Len(out.writes) = ExpectedWrites
          /\ out.confirmed = ExpectedWrites
          /\ WrittenText(out.writes) = arg
    /\ arg = <<>> => out.writes = <<>>

\* a message of 37 characters went out in three confirmed writes, the last of one
\* character
C28_Witness ==
    /\ fn = "resolved"
    /\ Len(arg) = 2 * BLE_CHUNK_DATA_SIZE + 1
    /\ Len(out.writes) = 3
    /\ Len(out.writes[3]) = 1
    /\ out.confirmed = 3

\* the codes accepted from the device so far, oldest first: each accepted code raised a
\* confirmation request, or without a hook an identity send
AcceptedCodes(deviceId) ==
    LET OfDevice(e) == e.deviceId = deviceId
        log == IF hookRegistered THEN SelectSeq(requests, OfDevice)
               ELSE SelectSeq(identitySends, OfDevice)
    IN [i \in 1..Len(log) |-> log[i].code]

\* the step handles a write of the device that carries a well-formed code
AcceptsCodeFrom(deviceId) ==
    /\ inbox # <<>>
    /\ inbox' = Tail(inbox)
    /\ Head(inbox).device = deviceId
    /\ validateConnectionCode(fromCharCodes(Head(inbox).data))

\* the step that accepts a code from the device stores that code and leaves the device
\* without accumulator
CodeReplacesSession(deviceId) ==
    AcceptsCodeFrom(deviceId) =>
        /\ MapHas(deviceConnectionCodes', deviceId)
        /\ deviceConnectionCodes'[deviceId] = fromCharCodes(Head(inbox).data)
        /\ ~MapHas(deviceDataChunks', deviceId)

\* C29: when a valid code c arrives from a peer, the peer's stored code becomes c and
\* its accumulator becomes empty, whatever they held before, and every completion for
\* that peer from then on, as long as no other code of it is accepted, reports
\* connectionCode = c.
C29_CodeSupersession ==
    [][\A deviceId \in Peers :
          /\ CodeReplacesSession(deviceId)
          /\ (CompletesFor(deviceId) /\ AcceptedCodes(deviceId) # <<>>) =>
                tabletCompleted'[Len(tabletCompleted')].connectionCode =
                    AcceptedCodes(deviceId)[Len(AcceptedCodes(deviceId))]]_vars

\* the same for the first completion after the code only: it holds
C29_SupersessionUntilCompletion ==
    [][\A deviceId \in Peers :
          /\ CodeReplacesSession(deviceId)
          /\ (CompletesFor(deviceId) /\ sessionCompletions[deviceId] = 0) =>
                tabletCompleted'[Len(tabletCompleted')].connectionCode =
                    AcceptedCodes(deviceId)[Len(AcceptedCodes(deviceId))]]_vars

\* the step handles a write that is classified as a credential outright
ReceivesCredential ==
    /\ inbox # <<>>
    /\ inbox' = Tail(inbox)
    /\ getDataType(fromCharCodes(Head(inbox).data)) = "jwtToken"

\* C30: the step that handles a payload classified as Credential invokes the completion
\* callback once, for the writing peer and with jwtToken equal to that payload, whatever
\* the accumulator of the peer holds; no accumulator is extended or created by it.
C30_DirectCredentialVerbatim ==
    [][ReceivesCredential =>
             /\ Len(tabletCompleted') = Len(tabletCompleted) + 1
             /\ SubSeq(tabletCompleted', 1, Len(tabletCompleted)) = tabletCompleted
             /\ tabletCompleted'[Len(tabletCompleted')].deviceId = Head(inbox).device
             /\ tabletCompleted'[Len(tabletCompleted')].jwtToken
                    = fromCharCodes(Head(inbox).data)
             /\ \A deviceId \in Peers :
                    MapHas(deviceDataChunks', deviceId) =>
                        /\ MapHas(deviceDataChunks, deviceId)
                        /\ deviceDataChunks'[deviceId] = deviceDataChunks[deviceId]]_vars

\* a peer without stored code wrote something that went to its accumulator, then a
\* whole credential, which completed as it was written, and then the tail of a
\* stream, which is all its accumulator holds
C30_Witness ==
    /\ peerWrites = 3
    /\ inbox = <<>>
    /\ connectedDevices = {Initiator}
    /\ Len(tabletCompleted) = 1
    /\ tabletCompleted[1].jwtToken = WholeCredential
    /\ tabletCompleted[1].connectionCode = <<>>
    /\ MapHas(deviceDataChunks, Initiator)
    /\ deviceDataChunks[Initiator] = StreamTail

\* the credential between the markers of what the device writes
CredentialOf(deviceId) ==
    LET stream == WritesOf(deviceId)[2] \o WritesOf(deviceId)[3]
    IN SubSeq(stream, Len(START_MARK) + 1, Len(stream) - Len(END_MARK))

\* the completions reported for the device
CompletionsOf(deviceId) ==
    SelectSeq(tabletCompleted, LAMBDA c : c.deviceId = deviceId)

\* what the two maps hold for the device: whether it has a key, and its value
SessionOf(codes, chunks, deviceId) ==
    <<MapHas(codes, deviceId), MapGetOrEmpty(codes, deviceId),
      MapHas(chunks, deviceId), MapGetOrEmpty(chunks, deviceId)>>

\* C31: the step that handles a write of one peer leaves the stored code and the
\* accumulator of every other peer as they were; with the writes of two peers
\* interleaved in any order, every completion reports the credential and the code of
\* the peer it is reported for, and once all writes are handled each peer has
\* completed exactly once.
C31_PeerIsolation ==
    /\ [][(inbox # <<>> /\ inbox' = Tail(inbox)) =>
             \A deviceId \in Peers \ {Head(inbox).device} :
                 SessionOf(deviceConnectionCodes', deviceDataChunks', deviceId)
                     = SessionOf(deviceConnectionCodes, deviceDataChunks, deviceId)]_vars
    /\ [](\A c \in 1..Len(tabletCompleted) :
             /\ tabletCompleted[c].jwtToken = CredentialOf(tabletCompleted[c].deviceId)
             /\ tabletCompleted[c].connectionCode = WritesOf(tabletCompleted[c].deviceId)[1])
    /\ []((peerWrites > 0 /\ inbox = <<>>) =>
             \A deviceId \in Peers : Len(CompletionsOf(deviceId)) = 1)

\* the fragments of the two peers arrived alternating, the other peer's code between
\* the initiator's two fragments, and both transfers completed with their own code
\* and credential
C31_Witness ==
    /\ peerWrites = 6
    /\ inbox = <<>>
    /\ Len(tabletCompleted) = 2
    /\ tabletCompleted[1].deviceId = OtherPeer
    /\ tabletCompleted[1].jwtToken = <<"c", ".", "d">>
    /\ tabletCompleted[1].connectionCode = PeerCode
    /\ tabletCompleted[2].deviceId = Initiator
    /\ tabletCompleted[2].jwtToken = <<"a", ".", "b">>
    /\ tabletCompleted[2].connectionCode \in Codes
    /\ deviceDataChunks = EmptyMap

\* the responder has pushed its identity on the attribute
IdentityPushed == \E i \in 1..Len(identitySends) : identitySends[i].ok

\* the step in which a pending read of the poller returns
ReadReturns(p) == pollers'[p].reading < pollers[p].reading

\* C32: once the responder has pushed its identity, a poll read that returns to a
\* registration still waiting brings the identity: the poller stops and the identity
\* is processed towards the credential transfer.
C32_PollReachesIdentity ==
    [][\A p \in 1..Len(pollers) :
          (ReadReturns(p) /\ IdentityPushed /\ ~isCompleted) =>
              /\ pollers'[p].lastReadValue = serialNumber
              /\ pollers'[p].cleared
              /\ Len(pollHandlers') = Len(pollHandlers) + 1
              /\ pollHandlers'[Len(pollHandlers')].data = serialNumber]_vars

\* the registration on which the identity was pushed never ends in the poll timeout
C32_NoTimeoutAfterIdentity ==
    [][(IdentityPushed /\ Len(mobileErrors') > Len(mobileErrors)) =>
          mobileErrors'[Len(mobileErrors')] # "poll timeout"]_vars

\* C33: getDataType tests Code, then Identity, then Credential, then answers
\* 'unknown'; at most one of the three tests holds of a string, so the tests made in
\* any order give the class getDataType gives.
C33_ClassificationUnambiguous ==
    fn = "ordered" =>
        /\ Cardinality(out.holding) <= 1
        /\ out.inOrder = out.dataType
        /\ out.dataType =
              getDataTypeInOrder(<<"connectionCode", "serialNumber", "jwtToken">>, arg)
        /\ out.dataType = "unknown" <=> out.holding = {}

\* six characters that start like a code and are an identity, classified with the
\* credential test first and the code test last
C33_Witness ==
    /\ fn = "ordered"
    /\ arg = <<"T", "A", "B", "-", "9", "A">>
    /\ out.order = <<"jwtToken", "serialNumber", "connectionCode">>
    /\ out.dataType = "serialNumber"
    /\ out.holding = {"serialNumber"}

\* the issuer call or the fragment writes of an identity are in progress
TransferActive == \E h \in 1..Len(handlers) : handlers[h].pc \in {"issuing", "writing"}

\* C34: while the issuer call or the fragment writes of an earlier identity are in
\* progress, no step starts another issuer call, so at most one transfer is active
\* at a time, and the completion callback is invoked at most once.
C34_OneTransferActive ==
    /\ [][TransferActive => Len(handlers') = Len(handlers)]_vars
    /\ [](Cardinality({h \in 1..Len(handlers) :
                          handlers[h].pc \in {"issuing", "writing"}}) <= 1)
    /\ [](Len(mobileCompleted) <= 1)

\* the step in which the confirm callback of request r sends the identity
ConfirmSends(r) ==
    /\ Len(identitySends') = Len(identitySends) + 1
    /\ identitySends'[Len(identitySends')].request = r
    /\ identitySends'[Len(identitySends')].ok

\* C35: the identity is sent at most once per accepted code, and the confirm callback
\* of a request sends only while its code is the last one accepted from its peer and
\* the session of that peer has not completed.
C35_ConfirmOnlyForCurrentCode ==
    /\ [](hookRegistered => Len(identitySends) <= Len(requests))
    /\ [][\A r \in 1..Len(requests) :
             ConfirmSends(r) =>
                 /\ \A i \in 1..Len(identitySends) : identitySends[i].request # r
                 /\ \A later \in (r + 1)..Len(requests) :
                        requests[later].deviceId # requests[r].deviceId
                 /\ sessionCompletions[requests[r].deviceId] = 0]_vars

\* the identity is sent at most once per confirmation request: it holds
C35_OneSendPerRequest ==
    /\ [](hookRegistered => Len(identitySends) <= Len(requests))
    /\ [][\A r \in 1..Len(requests) :
             ConfirmSends(r) =>
                 \A i \in 1..Len(identitySends) : identitySends[i].request # r]_vars

\* C36: the identity is delivered only to the peer whose code was accepted: a central
\* that presented no accepted code is notified of nothing.
C36_IdentityOnlyToAcceptedPeer ==
    \A d \in Peers : notified[d] # <<>> => sessionCompletions[d] >= 0

\* C37: every startAdvertising call settles, resolved or rejected, in every adapter
\* state: the promise of the last call is never left pending.
C37_StartAlwaysSettles == startResult # "pending"

\* C38: after the caller removed the Subscription of the registration, the registration
\* calls the issuer no more, writes no fragment, and invokes neither the completion nor
\* the error callback.
C38_RemovedRegistrationIsSilent ==
    [][regPc = "removed" =>
          /\ Len(handlers') = Len(handlers)
          /\ fragmentsWritten' = fragmentsWritten
          /\ mobileCompleted' = mobileCompleted
          /\ mobileErrors' = mobileErrors]_vars

\* the step handles a write of the peer whose payload is neither a code nor a credential
HandlesFragmentOf(deviceId) ==
    /\ inbox # <<>>
    /\ inbox' = Tail(inbox)
    /\ Head(inbox).device = deviceId
    /\ getDataType(fromCharCodes(Head(inbox).data)) \notin {"connectionCode", "jwtToken"}

\* C39: the accumulator of a peer is the concatenation, in arrival order, of the
\* payloads of that peer classified as neither code nor credential since the accumulator
\* was last cleared: a step that handles such a payload appends it at the end or clears
\* the accumulator, and every other step leaves the accumulator alone or clears it,
\* whichever handlers are suspended at their awaits.
C39_AccumulatorIsArrivalOrder ==
    [][\A deviceId \in Peers :
          LET before == MapGetOrEmpty(deviceDataChunks, deviceId)
              after == MapGetOrEmpty(deviceDataChunks', deviceId)
              cleared == ~MapHas(deviceDataChunks', deviceId)
          IN IF HandlesFragmentOf(deviceId)
             THEN cleared \/ after = before \o fromCharCodes(Head(inbox).data)
             ELSE cleared \/ after = before]_vars

\* two payloads of one peer were appended while the handler of its code was suspended
C39_Witness ==
    /\ \E i \in 1..Len(identitySends) : Awaiting(identitySends[i])
                                         /\ identitySends[i].deviceId = Initiator
    /\ MapGetOrEmpty(deviceDataChunks, Initiator) = StreamHead \o StreamHead

====
